---------------------------- MODULE Spec2Model ----------------------------
(***************************************************************************)
(* A model of compare_architectures_tabular.py: the Structure Normalizer,  *)
(* the four Level Differencers, the Rationale Extractor and the Comparison *)
(* Orchestrator of TabularArchitectureComparator.                          *)
(*                                                                         *)
(* Python values are modelled as follows.                                  *)
(*   str    a TLA+ string; characters are read with Head/Tail/SubSeq.      *)
(*   dict   read from JSON: a function whose DOMAIN is the set of keys     *)
(*          present, so that d.get(k, default) sees an absent key.         *)
(*   dict   built by the code and later iterated (services, components):   *)
(*          a sequence of <<key, value>> pairs in insertion order.         *)
(*   dict   built by the code and only compared or looked up: a function.  *)
(*   None   the empty tuple; d.get(k) yields <<>> or <<value>>.            *)
(*   set    a TLA+ set; its iteration order is fixed by hash_order.        *)
(***************************************************************************)
EXTENDS Integers, Sequences, FiniteSets, TLC

VARIABLES
    pc,                         \* position in compare_all_architectures_tabular
    hash_order,                 \* the iteration order of Python sets of str
    baseline_data,              \* self.baseline_data
    enhanced_data,              \* self.enhanced_data
    baseline_reasoning_lookup,  \* self.baseline_reasoning_lookup
    enhanced_reasoning_lookup,  \* self.enhanced_reasoning_lookup
    baseline_archs,             \* local of compare_all_architectures_tabular
    enhanced_archs,             \* local of compare_all_architectures_tabular
    all_arch_ids,               \* local of compare_all_architectures_tabular
    comparison_rows,            \* local of compare_all_architectures_tabular
    baseline_structure,         \* local of the last _create_comparison_row
    enhanced_structure,         \* local of the last _create_comparison_row
    call_text,                  \* argument of a call of _extract_key_insight
    insight                     \* what that call returned

vars == <<pc, hash_order, baseline_data, enhanced_data,
          baseline_reasoning_lookup, enhanced_reasoning_lookup,
          baseline_archs, enhanced_archs, all_arch_ids, comparison_rows,
          baseline_structure, enhanced_structure, call_text, insight>>

---------------------------------------------------------------------------
(* Python str                                                              *)

\* The characters the model's strings are made of, in code point order.
AsciiOrder ==
    " ()*,-.0123456789:;<=>ABCDEFGHIJKLMNOPQRSTUVWXYZ[]_abcdefghijklmnopqrstuvwxyz"

Chars == {SubSeq(AsciiOrder, i, i) : i \in 1..Len(AsciiOrder)}

\* ord(c), up to an order-preserving renumbering.
Ord == [c \in Chars |-> CHOOSE i \in 1..Len(AsciiOrder) : SubSeq(AsciiOrder, i, i) = c]

\* a < b on str: lexicographic by code point.
RECURSIVE StrLess(_, _)
StrLess(a, b) ==
    IF b = "" THEN FALSE
    ELSE IF a = "" THEN TRUE
    ELSE IF Head(a) = Head(b) THEN StrLess(Tail(a), Tail(b))
    ELSE Ord[Head(a)] < Ord[Head(b)]

\* sorted(S) for a set of str.
RECURSIVE sorted(_)
sorted(S) ==
    IF S = {} THEN <<>>
    ELSE LET m == CHOOSE x \in S : \A y \in S : x = y \/ StrLess(x, y)
         IN  <<m>> \o sorted(S \ {m})

Reverse(s) == [i \in 1..Len(s) |-> s[Len(s) + 1 - i]]

\* sep.join(parts)
RECURSIVE join(_, _)
join(sep, parts) ==
    IF parts = <<>> THEN ""
    ELSE IF Len(parts) = 1 THEN parts[1]
    ELSE parts[1] \o sep \o join(sep, Tail(parts))

\* The order in which a for loop visits a set of str.  CPython orders a set
\* by the hashes of its members, which change with the hash seed of the run:
\* the model keeps two of the possible orders.
HashOrders == {"ascending", "descending"}

SetIter(S) == IF hash_order = "ascending" THEN sorted(S) ELSE Reverse(sorted(S))

---------------------------------------------------------------------------
(* Python dict and None                                                    *)

None == <<>>

EmptyDict == <<>>

\* d.get(k, default) on a dict read from JSON.
Get(d, k, default) == IF k \in DOMAIN d THEN d[k] ELSE default

\* d.get(k): None, or the value.
GetOpt(d, k) == IF k \in DOMAIN d THEN <<d[k]>> ELSE None

\* Insertion-ordered dicts built by the code.
OdKeys(d) == {d[i][1] : i \in DOMAIN d}

OdGet(d, k) == d[CHOOSE i \in DOMAIN d : d[i][1] = k][2]

\* d[k] = v: in place for a key the dict has, at the end for a new key.
OdSet(d, k, v) ==
    IF k \in OdKeys(d)
    THEN [i \in DOMAIN d |-> IF d[i][1] = k THEN <<k, v>> ELSE d[i]]
    ELSE Append(d, <<k, v>>)

\* The mapping an insertion-ordered dict stands for (dict == ignores order).
OdMap(d) == [k \in OdKeys(d) |-> OdGet(d, k)]

---------------------------------------------------------------------------
(* Structure Normalizer: _extract_architecture_structure                   *)

\* f"{component_id}_{comp_name}"
FullCompName(component_id, comp_name) == component_id \o "_" \o comp_name

\* The ComponentEntry stored for one service-component search space.
ComponentEntry(component_id, service_component) ==
    [component_id |-> component_id,
     service_component_codename |->
         Get(service_component, "service_component_codename", "Unknown"),
     attributes_search_space |->
         Get(service_component, "attributes_search_space", <<>>),
     number_of_instances |-> Get(service_component, "number_of_instances", 1),
     service_component_sort |->
         Get(service_component, "service_component_sort", <<>>)]

\* AddServiceComponents leaving the entry a composite key already has.
RECURSIVE AddServiceComponentsKeepFirst(_, _, _)
AddServiceComponentsKeepFirst(components, component_id, service_components) ==
    IF service_components = <<>> THEN components
    ELSE LET service_component == Head(service_components)
             comp_name == Get(service_component, "service_component_codename", "Unknown")
             full_comp_name == FullCompName(component_id, comp_name)
         IN  AddServiceComponentsKeepFirst(
                 IF full_comp_name \in OdKeys(components) THEN components
                 ELSE OdSet(components, full_comp_name,
                            ComponentEntry(component_id, service_component)),
                 component_id, Tail(service_components))

\* The inner loop: every service-component of one service search space is
\* stored under its composite key, overwriting an entry the key already has.
RECURSIVE AddServiceComponents(_, _, _)
AddServiceComponents(components, component_id, service_components) ==
    IF service_components = <<>> THEN components
    ELSE LET service_component == Head(service_components)
             comp_name == Get(service_component, "service_component_codename", "Unknown")
             full_comp_name == FullCompName(component_id, comp_name)
         IN  AddServiceComponents(
                 OdSet(components, full_comp_name,
                       ComponentEntry(component_id, service_component)),
                 component_id, Tail(service_components))

\* The service entry created when a service codename is first seen.
NewServiceEntry(service_codename, service_space) ==
    [service_codename |-> service_codename,
     select_attributes |-> Get(service_space, "service_select_attributes", <<>>),
     components |-> <<>>]

\* ExtractComponent creating the service entry anew at every component of
\* the service.
ExtractComponentNewEntry(services, component) ==
    LET component_id == Get(component, "component_id", "")
        service_space == Get(component, "service_search_space", EmptyDict)
        service_codename == Get(service_space, "service_codename", "Unknown")
        entry == NewServiceEntry(service_codename, service_space)
    IN  OdSet(services, service_codename,
              [entry EXCEPT !.components =
                  AddServiceComponents(@, component_id,
                      Get(service_space, "service_components_search_spaces", <<>>))])

\* One iteration of the outer loop.
ExtractComponent(services, component) ==
    LET component_id == Get(component, "component_id", "")
        service_space == Get(component, "service_search_space", EmptyDict)
        service_codename == Get(service_space, "service_codename", "Unknown")
        services1 == IF service_codename \in OdKeys(services) THEN services
                     ELSE OdSet(services, service_codename,
                                NewServiceEntry(service_codename, service_space))
        entry == OdGet(services1, service_codename)
    IN  OdSet(services1, service_codename,
              [entry EXCEPT !.components =
                  AddServiceComponents(@, component_id,
                      Get(service_space, "service_components_search_spaces", <<>>))])

RECURSIVE ExtractComponents(_, _)
ExtractComponents(services, components_search_space) ==
    IF components_search_space = <<>> THEN services
    ELSE ExtractComponents(ExtractComponent(services, Head(components_search_space)),
                           Tail(components_search_space))

_extract_architecture_structure(arch_data) ==
    IF DOMAIN arch_data = {} THEN [services |-> <<>>]
    ELSE [services |->
             ExtractComponents(<<>>, Get(arch_data, "components_search_space", <<>>))]

---------------------------------------------------------------------------
(* Level Differencers                                                      *)

\* DifferencesText without its fallback for an empty list.
DifferencesTextNoFallback(differences) == join("; ", differences)

\* "; ".join(differences) if differences else "No differences"
DifferencesText(differences) ==
    IF differences # <<>> THEN join("; ", differences) ELSE "No differences"

\* CompareKeySets with <= in place of == between the two sets.
CompareKeySetsSubset(baseline_keys, enhanced_keys) ==
    LET same == baseline_keys \subseteq enhanced_keys
        baseline_only == baseline_keys \ enhanced_keys
        enhanced_only == enhanced_keys \ baseline_keys
        differences ==
            IF same THEN <<>>
            ELSE (IF baseline_only # {}
                  THEN <<"Baseline only: " \o join(", ", sorted(baseline_only))>>
                  ELSE <<>>)
                 \o
                 (IF enhanced_only # {}
                  THEN <<"Enhanced only: " \o join(", ", sorted(enhanced_only))>>
                  ELSE <<>>)
    IN  [same |-> same,
         differences |-> IF differences # <<>> THEN join("; ", differences)
                         ELSE "No differences"]

\* The body shared by the services and the components level: the verdict
\* and the text for two sets of keys.
CompareKeySets(baseline_keys, enhanced_keys) ==
    LET same == baseline_keys = enhanced_keys
        baseline_only == baseline_keys \ enhanced_keys
        enhanced_only == enhanced_keys \ baseline_keys
        differences ==
            IF same THEN <<>>
            ELSE (IF baseline_only # {}
                  THEN <<"Baseline only: " \o join(", ", sorted(baseline_only))>>
                  ELSE <<>>)
                 \o
                 (IF enhanced_only # {}
                  THEN <<"Enhanced only: " \o join(", ", sorted(enhanced_only))>>
                  ELSE <<>>)
    IN  [same |-> same, differences |-> DifferencesText(differences)]

\* _compare_services_level listing the names in the order of the dicts'
\* keys, without sorted().
CompareServicesUnsorted(b_structure, e_structure) ==
    LET baseline_services == [i \in DOMAIN b_structure.services |->
                                 b_structure.services[i][1]]
        enhanced_services == [i \in DOMAIN e_structure.services |->
                                 e_structure.services[i][1]]
        baseline_only == SelectSeq(baseline_services,
                                   LAMBDA n : n \notin OdKeys(e_structure.services))
        enhanced_only == SelectSeq(enhanced_services,
                                   LAMBDA n : n \notin OdKeys(b_structure.services))
        differences ==
            (IF baseline_only # <<>>
             THEN <<"Baseline only: " \o join(", ", baseline_only)>> ELSE <<>>)
            \o
            (IF enhanced_only # <<>>
             THEN <<"Enhanced only: " \o join(", ", enhanced_only)>> ELSE <<>>)
    IN  [same |-> OdKeys(b_structure.services) = OdKeys(e_structure.services),
         differences |-> DifferencesText(differences)]

_compare_services_level(b_structure, e_structure) ==
    CompareKeySets(OdKeys(b_structure.services), OdKeys(e_structure.services))

\* f"{service_name}::{comp_name}"
CompKey(service_name, comp_name) == service_name \o "::" \o comp_name

\* The components of a structure in the order the nested loops over
\* structure["services"].items() and service_data["components"].items()
\* visit them: a sequence of <<comp_key, comp_data>>.
RECURSIVE FlattenComponents(_)
FlattenComponents(services) ==
    IF services = <<>> THEN <<>>
    ELSE LET service_name == Head(services)[1]
             components == Head(services)[2].components
         IN  [i \in 1..Len(components) |->
                 <<CompKey(service_name, components[i][1]), components[i][2]>>]
             \o FlattenComponents(Tail(services))

\* The dict {comp_key: comp_data} the loops build: a later visit of a
\* comp_key replaces what an earlier one stored.
FlatDict(structure) ==
    LET flat == FlattenComponents(structure.services)
        last(k) == CHOOSE i \in DOMAIN flat :
                       /\ flat[i][1] = k
                       /\ \A j \in DOMAIN flat : flat[j][1] = k => j <= i
    IN  [k \in {flat[i][1] : i \in DOMAIN flat} |-> flat[last(k)][2]]

\* _compare_components_level comparing the two flattened dicts, with their
\* component data, in place of their key sets.
CompareComponentsByValue(b_structure, e_structure) ==
    [same |-> FlatDict(b_structure) = FlatDict(e_structure),
     differences |->
         CompareKeySets(DOMAIN FlatDict(b_structure),
                        DOMAIN FlatDict(e_structure)).differences]

_compare_components_level(b_structure, e_structure) ==
    CompareKeySets(DOMAIN FlatDict(b_structure),
                   DOMAIN FlatDict(e_structure))

\* attr.get("attribute_codename", "unknown")
AttrName(attr) == Get(attr, "attribute_codename", "unknown")

\* ComponentAttributes storing the attribute's values beside its codename.
ComponentAttributesWithValues(comp_data) ==
    LET space == comp_data.attributes_search_space
        last(n) == CHOOSE i \in DOMAIN space :
                       /\ Get(space[i], "attribute_codename", "unknown") = n
                       /\ \A j \in DOMAIN space :
                              Get(space[j], "attribute_codename", "unknown") = n => j <= i
    IN  [attr_name \in {Get(space[i], "attribute_codename", "unknown") : i \in DOMAIN space} |->
            [codename |-> attr_name, exists |-> TRUE,
             values |-> GetOpt(space[last(attr_name)], "attribute_values")]]

\* attributes[comp_key] of _get_all_attributes.
ComponentAttributes(comp_data) ==
    LET space == comp_data.attributes_search_space
    IN  [attr_name \in {AttrName(space[i]) : i \in DOMAIN space} |->
            [codename |-> attr_name, exists |-> TRUE]]

_get_all_attributes(structure) ==
    LET components == FlatDict(structure)
    IN  [comp_key \in DOMAIN components |-> ComponentAttributes(components[comp_key])]

\* The entry of one attribute in configurations[comp_key]["attributes"].
AttributeConfiguration(attr) ==
    [values |-> GetOpt(attr, "attribute_values"),
     constraint |-> GetOpt(attr, "attribute_constraint_expr"),
     unit |-> GetOpt(attr, "attribute_unit")]

\* A variant of configurations[comp_key] that leaves the attributes out.
ComponentConfigurationNoAttributes(comp_data) ==
    [instances |-> comp_data.number_of_instances,
     sort |-> comp_data.service_component_sort,
     attributes |-> EmptyDict]

\* configurations[comp_key] of _get_all_configurations: of two attributes
\* with one codename the later one stays.
ComponentConfiguration(comp_data) ==
    LET space == comp_data.attributes_search_space
        last(n) == CHOOSE i \in DOMAIN space :
                       /\ AttrName(space[i]) = n
                       /\ \A j \in DOMAIN space : AttrName(space[j]) = n => j <= i
    IN  [instances |-> comp_data.number_of_instances,
         sort |-> comp_data.service_component_sort,
         attributes |->
             [attr_name \in {AttrName(space[i]) : i \in DOMAIN space} |->
                 AttributeConfiguration(space[last(attr_name)])]]

_get_all_configurations(structure) ==
    LET components == FlatDict(structure)
    IN  [comp_key \in DOMAIN components |-> ComponentConfiguration(components[comp_key])]

\* The entry of one component key in the attributes difference text, or
\* nothing when its attribute names are the same on both sides.
AttributesCompDiff(comp_key, baseline_attrs, enhanced_attrs) ==
    LET baseline_comp_attrs == Get(baseline_attrs, comp_key, EmptyDict)
        enhanced_comp_attrs == Get(enhanced_attrs, comp_key, EmptyDict)
        baseline_attr_names == DOMAIN baseline_comp_attrs
        enhanced_attr_names == DOMAIN enhanced_comp_attrs
        baseline_only == baseline_attr_names \ enhanced_attr_names
        enhanced_only == enhanced_attr_names \ baseline_attr_names
        comp_diffs ==
            (IF baseline_only # {}
             THEN <<"baseline only: " \o join(", ", sorted(baseline_only))>>
             ELSE <<>>)
            \o
            (IF enhanced_only # {}
             THEN <<"enhanced only: " \o join(", ", sorted(enhanced_only))>>
             ELSE <<>>)
    IN  IF /\ baseline_comp_attrs # enhanced_comp_attrs
           /\ baseline_attr_names # enhanced_attr_names
           /\ (baseline_only # {} \/ enhanced_only # {})
        THEN <<comp_key \o " (" \o join("; ", comp_diffs) \o ")">>
        ELSE <<>>

\* The list a loop builds by appending, pass after pass, the entries of
\* each pass: the concatenation of the passes' entries in order.
RECURSIVE Extend(_)
Extend(parts) ==
    IF parts = <<>> THEN <<>> ELSE Head(parts) \o Extend(Tail(parts))

_compare_attributes_level(b_structure, e_structure) ==
    LET baseline_attrs == _get_all_attributes(b_structure)
        enhanced_attrs == _get_all_attributes(e_structure)
        same == baseline_attrs = enhanced_attrs
        all_comp_keys == DOMAIN baseline_attrs \cup DOMAIN enhanced_attrs
        part(comp_key) == AttributesCompDiff(comp_key, baseline_attrs, enhanced_attrs)
        keys == SetIter(all_comp_keys)
        differences == IF same THEN <<>>
                       ELSE Extend([i \in 1..Len(keys) |-> part(keys[i])])
    IN  [same |-> same, differences |-> DifferencesText(differences)]

\* AttributeConfigDiff appending the fields in the order unit, constraint,
\* values.
AttributeConfigDiffReversed(attr_name, baseline_attr_configs, enhanced_attr_configs) ==
    LET baseline_attr == Get(baseline_attr_configs, attr_name, EmptyDict)
        enhanced_attr == Get(enhanced_attr_configs, attr_name, EmptyDict)
        attr_diffs ==
            (IF Get(baseline_attr, "unit", None) # Get(enhanced_attr, "unit", None)
             THEN <<"unit">> ELSE <<>>)
            \o
            (IF Get(baseline_attr, "constraint", None) # Get(enhanced_attr, "constraint", None)
             THEN <<"constraint">> ELSE <<>>)
            \o
            (IF Get(baseline_attr, "values", None) # Get(enhanced_attr, "values", None)
             THEN <<"values">> ELSE <<>>)
    IN  IF baseline_attr # enhanced_attr /\ attr_diffs # <<>>
        THEN <<attr_name \o ": " \o join(", ", attr_diffs)>>
        ELSE <<>>

\* The entry of one attribute name in a component's configuration
\* difference, or nothing when no field of the attribute differs.
AttributeConfigDiff(attr_name, baseline_attr_configs, enhanced_attr_configs) ==
    LET baseline_attr == Get(baseline_attr_configs, attr_name, EmptyDict)
        enhanced_attr == Get(enhanced_attr_configs, attr_name, EmptyDict)
        attr_diffs ==
            (IF Get(baseline_attr, "values", None) # Get(enhanced_attr, "values", None)
             THEN <<"values">> ELSE <<>>)
            \o
            (IF Get(baseline_attr, "constraint", None) # Get(enhanced_attr, "constraint", None)
             THEN <<"constraint">> ELSE <<>>)
            \o
            (IF Get(baseline_attr, "unit", None) # Get(enhanced_attr, "unit", None)
             THEN <<"unit">> ELSE <<>>)
    IN  IF baseline_attr # enhanced_attr /\ attr_diffs # <<>>
        THEN <<attr_name \o ": " \o join(", ", attr_diffs)>>
        ELSE <<>>

\* str(x) of an instance count read with .get("instances").
InstancesStr(opt) == IF opt = None THEN "None" ELSE ToString(opt[1])

\* ConfigurationsCompDiff comparing the sort lists only when the instance
\* counts are equal (elif in place of if).
ConfigurationsCompDiffElseSort(comp_key, baseline_configs, enhanced_configs) ==
    LET baseline_comp_configs == Get(baseline_configs, comp_key, EmptyDict)
        enhanced_comp_configs == Get(enhanced_configs, comp_key, EmptyDict)
        baseline_attr_configs == Get(baseline_comp_configs, "attributes", EmptyDict)
        enhanced_attr_configs == Get(enhanced_comp_configs, "attributes", EmptyDict)
        all_attr_names ==
            SetIter(DOMAIN baseline_attr_configs \cup DOMAIN enhanced_attr_configs)
        comp_diffs ==
            (IF GetOpt(baseline_comp_configs, "instances")
                    # GetOpt(enhanced_comp_configs, "instances")
             THEN <<"instances: "
                    \o InstancesStr(GetOpt(baseline_comp_configs, "instances"))
                    \o " vs "
                    \o InstancesStr(GetOpt(enhanced_comp_configs, "instances"))>>
             ELSE IF GetOpt(baseline_comp_configs, "sort")
                         # GetOpt(enhanced_comp_configs, "sort")
             THEN <<"sort configuration differs">>
             ELSE <<>>)
            \o
            Extend([i \in 1..Len(all_attr_names) |->
                       AttributeConfigDiff(all_attr_names[i], baseline_attr_configs,
                                           enhanced_attr_configs)])
    IN  IF baseline_comp_configs # enhanced_comp_configs /\ comp_diffs # <<>>
        THEN <<comp_key \o " (" \o join("; ", comp_diffs) \o ")">>
        ELSE <<>>

\* The entry of one component key in the configurations difference text,
\* or nothing when no sub-difference was found.
ConfigurationsCompDiff(comp_key, baseline_configs, enhanced_configs) ==
    LET baseline_comp_configs == Get(baseline_configs, comp_key, EmptyDict)
        enhanced_comp_configs == Get(enhanced_configs, comp_key, EmptyDict)
        baseline_attr_configs == Get(baseline_comp_configs, "attributes", EmptyDict)
        enhanced_attr_configs == Get(enhanced_comp_configs, "attributes", EmptyDict)
        part(attr_name) ==
            AttributeConfigDiff(attr_name, baseline_attr_configs, enhanced_attr_configs)
        all_attr_names ==
            SetIter(DOMAIN baseline_attr_configs \cup DOMAIN enhanced_attr_configs)
        comp_diffs ==
            (IF GetOpt(baseline_comp_configs, "instances")
                    # GetOpt(enhanced_comp_configs, "instances")
             THEN <<"instances: "
                    \o InstancesStr(GetOpt(baseline_comp_configs, "instances"))
                    \o " vs "
                    \o InstancesStr(GetOpt(enhanced_comp_configs, "instances"))>>
             ELSE <<>>)
            \o
            (IF GetOpt(baseline_comp_configs, "sort") # GetOpt(enhanced_comp_configs, "sort")
             THEN <<"sort configuration differs">>
             ELSE <<>>)
            \o
            Extend([i \in 1..Len(all_attr_names) |-> part(all_attr_names[i])])
    IN  IF baseline_comp_configs # enhanced_comp_configs /\ comp_diffs # <<>>
        THEN <<comp_key \o " (" \o join("; ", comp_diffs) \o ")">>
        ELSE <<>>

_compare_configurations_level(b_structure, e_structure) ==
    LET baseline_configs == _get_all_configurations(b_structure)
        enhanced_configs == _get_all_configurations(e_structure)
        same == baseline_configs = enhanced_configs
        all_comp_keys == DOMAIN baseline_configs \cup DOMAIN enhanced_configs
        part(comp_key) ==
            ConfigurationsCompDiff(comp_key, baseline_configs, enhanced_configs)
        keys == SetIter(all_comp_keys)
        differences == IF same THEN <<>>
                       ELSE Extend([i \in 1..Len(keys) |-> part(keys[i])])
    IN  [same |-> same, differences |-> DifferencesText(differences)]

---------------------------------------------------------------------------
(* Rationale Extractor: _extract_key_insight                               *)

Whitespace == {" "}

RECURSIVE lstrip(_)
lstrip(s) == IF s # "" /\ Head(s) \in Whitespace THEN lstrip(Tail(s)) ELSE s

RECURSIVE rstrip(_)
rstrip(s) ==
    IF s # "" /\ SubSeq(s, Len(s), Len(s)) \in Whitespace
    THEN rstrip(SubSeq(s, 1, Len(s) - 1))
    ELSE s

\* s.strip()
strip(s) == rstrip(lstrip(s))

UpperCase == "ABCDEFGHIJKLMNOPQRSTUVWXYZ"

LowerCase == "abcdefghijklmnopqrstuvwxyz"

LowerChar(c) ==
    IF \E i \in 1..Len(UpperCase) : SubSeq(UpperCase, i, i) = c
    THEN LET i == CHOOSE i \in 1..Len(UpperCase) : SubSeq(UpperCase, i, i) = c
         IN  SubSeq(LowerCase, i, i)
    ELSE c

\* s.lower(): every character lowered, the string taken by halves.
RECURSIVE lower(_)
lower(s) ==
    IF s = "" THEN ""
    ELSE IF Len(s) = 1 THEN LowerChar(s)
    ELSE lower(SubSeq(s, 1, Len(s) \div 2)) \o lower(SubSeq(s, Len(s) \div 2 + 1, Len(s)))

\* sub in s
Contains(s, sub) ==
    \E i \in 1..(Len(s) - Len(sub) + 1) : SubSeq(s, i, i + Len(sub) - 1) = sub

\* s.endswith(suffix)
EndsWith(s, suffix) ==
    Len(s) >= Len(suffix) /\ SubSeq(s, Len(s) - Len(suffix) + 1, Len(s)) = suffix

\* s.split(sep): the pieces between the occurrences of sep, found left to
\* right without overlap.
RECURSIVE split(_, _)
split(s, sep) ==
    IF Contains(s, sep)
    THEN LET i == CHOOSE i \in 1..Len(s) :
                      /\ SubSeq(s, i, i + Len(sep) - 1) = sep
                      /\ \A j \in 1..(i - 1) : SubSeq(s, j, j + Len(sep) - 1) # sep
         IN  <<SubSeq(s, 1, i - 1)>> \o split(SubSeq(s, i + Len(sep), Len(s)), sep)
    ELSE <<s>>

key_phrases ==
    <<"because", "due to", "in order to", "to ensure", "chosen to", "selected to",
      "prioritized", "optimized for", "designed for", "configured for", "focused on",
      "enables", "allows", "provides", "ensures", "guarantees", "supports">>

\* The length beyond which an insight is cut and "..." appended.
MaxInsightLen == 150

\* A sentence without a key phrase is taken only when longer than this.
MinSentenceLen == 30

\* Truncate leaving whole what is no longer than the cut text with its
\* "...".
TruncateLate(s) ==
    IF Len(s) > MaxInsightLen + 3 THEN SubSeq(s, 1, MaxInsightLen) \o "..." ELSE s

\* s[:150] + ("..." if len(s) > 150 else "")
Truncate(s) ==
    IF Len(s) > MaxInsightLen THEN SubSeq(s, 1, MaxInsightLen) \o "..." ELSE s

\* any(phrase in sentence.lower() for phrase in key_phrases)
HasKeyPhrase(sentence) ==
    LET lowered == lower(sentence)
    IN  \E p \in DOMAIN key_phrases : Contains(lowered, key_phrases[p])

\* The stripped sentences with a key phrase, each ended with a period.
KeySentences(sentences) ==
    LET part(sentence) ==
            LET stripped == strip(sentence)
            IN  IF HasKeyPhrase(stripped)
                THEN <<IF stripped # "" /\ ~EndsWith(stripped, ".")
                       THEN stripped \o "." ELSE stripped>>
                ELSE <<>>
    IN  Extend([i \in 1..Len(sentences) |-> part(sentences[i])])

\* MeaningfulSentences with >= in place of >.
MeaningfulSentencesFromMin(sentences) ==
    LET part(sentence) ==
            IF Len(strip(sentence)) >= MinSentenceLen THEN <<strip(sentence)>> ELSE <<>>
    IN  Extend([i \in 1..Len(sentences) |-> part(sentences[i])])

\* The stripped sentences longer than MinSentenceLen.
MeaningfulSentences(sentences) ==
    LET part(sentence) ==
            IF Len(strip(sentence)) > MinSentenceLen THEN <<strip(sentence)>> ELSE <<>>
    IN  Extend([i \in 1..Len(sentences) |-> part(sentences[i])])

\* _extract_key_insight looking for a sentence longer than MinSentenceLen
\* before it looks for one with a key phrase.
ExtractKeyInsightLongFirst(text0) ==
    IF text0 = "" THEN ""
    ELSE LET text == strip(text0)
             sentences == split(text, ". ")
             key_sentences == KeySentences(sentences)
             meaningful == MeaningfulSentences(sentences)
         IN  IF meaningful # <<>> THEN Truncate(meaningful[1])
             ELSE IF key_sentences # <<>> THEN Truncate(key_sentences[1])
             ELSE Truncate(text)

_extract_key_insight(text0) ==
    IF text0 = "" THEN ""
    ELSE LET text == strip(text0)
             sentences == split(text, ". ")
             key_sentences == KeySentences(sentences)
             meaningful == MeaningfulSentences(sentences)
         IN  IF key_sentences # <<>> THEN Truncate(key_sentences[1])
             ELSE IF meaningful # <<>> THEN Truncate(meaningful[1])
             ELSE Truncate(text)

---------------------------------------------------------------------------
(* Reasoning records                                                       *)

\* _create_reasoning_lookup: the records by service name; a record with no
\* name, or an empty one, is skipped and a later record replaces an earlier
\* one of the same name.
_create_reasoning_lookup(reasoning_data) ==
    LET objects == Get(reasoning_data, "reasoning_objects", <<>>)
        name(i) == Get(objects[i], "service_codename", "")
        named == {i \in DOMAIN objects : name(i) # ""}
        last(n) == CHOOSE i \in named :
                       name(i) = n /\ \A j \in named : name(j) = n => j <= i
    IN  [n \in {name(i) : i \in named} |-> objects[last(n)]]

\* An element of alternatives_considered as text: itself when it is a str,
\* str(x) otherwise.
AlternativeText(item) ==
    IF item.kind = "str" THEN item.value ELSE ToString(item.value)

\* LabeledInsight without the comparison of the two texts.
LabeledInsightUncompared(label, baseline_text, enhanced_text) ==
    IF enhanced_text # "" /\ _extract_key_insight(enhanced_text) # ""
    THEN <<label \o _extract_key_insight(enhanced_text)>>
    ELSE <<>>

\* label + insight when the enhanced text differs from the baseline text,
\* is not empty and yields an insight.
LabeledInsight(label, baseline_text, enhanced_text) ==
    IF /\ baseline_text # enhanced_text
       /\ enhanced_text # ""
       /\ _extract_key_insight(enhanced_text) # ""
    THEN <<label \o _extract_key_insight(enhanced_text)>>
    ELSE <<>>

\* The insights of a service both structures have.
CommonServiceInsights(baseline_reasoning, enhanced_reasoning) ==
    LET baseline_alternatives == Get(baseline_reasoning, "alternatives_considered", <<>>)
        enhanced_alternatives == Get(enhanced_reasoning, "alternatives_considered", <<>>)
    IN  LabeledInsight("Attribute selection: ",
                       Get(baseline_reasoning, "attribute_selection_rationale", ""),
                       Get(enhanced_reasoning, "attribute_selection_rationale", ""))
        \o
        LabeledInsight("Critical attributes: ",
                       Get(baseline_reasoning, "critical_attributes_reasoning", ""),
                       Get(enhanced_reasoning, "critical_attributes_reasoning", ""))
        \o
        (IF /\ baseline_alternatives # enhanced_alternatives
            /\ enhanced_alternatives # <<>>
            /\ _extract_key_insight(AlternativeText(enhanced_alternatives[1])) # ""
         THEN <<"Design choice: "
                \o _extract_key_insight(AlternativeText(enhanced_alternatives[1]))>>
         ELSE <<>>)

\* prefix + insight of a text, when the text is not empty and yields one.
PrefixedInsight(prefix, text) ==
    IF text # "" /\ _extract_key_insight(text) # ""
    THEN <<prefix \o _extract_key_insight(text)>>
    ELSE <<>>

\* What one service adds to descriptions in the per-service loop.
ServiceDescriptions(service_name, baseline_services, enhanced_services) ==
    LET baseline_reasoning == Get(baseline_reasoning_lookup, service_name, EmptyDict)
        enhanced_reasoning == Get(enhanced_reasoning_lookup, service_name, EmptyDict)
        insights == CommonServiceInsights(baseline_reasoning, enhanced_reasoning)
    IN  IF service_name \in baseline_services /\ service_name \in enhanced_services
        THEN IF insights # <<>>
             THEN <<service_name \o ": " \o join("; ", insights)>>
             ELSE <<>>
        ELSE IF service_name \in enhanced_services
        THEN PrefixedInsight(service_name \o " (Enhanced only): ",
                             Get(enhanced_reasoning, "service_understanding", ""))
             \o
             PrefixedInsight(service_name \o " selection reasoning: ",
                             Get(enhanced_reasoning, "attribute_selection_rationale", ""))
        ELSE PrefixedInsight(service_name \o " (Baseline only): ",
                             Get(baseline_reasoning, "service_understanding", ""))

\* The number of common services the fallback looks at.
MaxFallbackServices == 2

\* FallbackDescriptions reading the baseline record before the enhanced
\* one.
FallbackDescriptionsBaselineFirst(service_name) ==
    LET baseline_record == Get(baseline_reasoning_lookup, service_name, EmptyDict)
        reasoning == IF baseline_record # EmptyDict THEN baseline_record
                     ELSE Get(enhanced_reasoning_lookup, service_name, EmptyDict)
        attr_rationale == Get(reasoning, "attribute_selection_rationale", "")
        critical_attrs == Get(reasoning, "critical_attributes_reasoning", "")
    IN  IF attr_rationale # ""
        THEN <<service_name \o ": " \o _extract_key_insight(attr_rationale)>>
        ELSE IF critical_attrs # ""
        THEN <<service_name \o ": " \o _extract_key_insight(critical_attrs)>>
        ELSE <<>>

\* What one common service adds to descriptions in the fallback loop.
FallbackDescriptions(service_name) ==
    LET enhanced_record == Get(enhanced_reasoning_lookup, service_name, EmptyDict)
        reasoning == IF enhanced_record # EmptyDict THEN enhanced_record
                     ELSE Get(baseline_reasoning_lookup, service_name, EmptyDict)
        attr_rationale == Get(reasoning, "attribute_selection_rationale", "")
        critical_attrs == Get(reasoning, "critical_attributes_reasoning", "")
    IN  IF attr_rationale # ""
        THEN PrefixedInsight(service_name \o ": ", attr_rationale)
        ELSE PrefixedInsight(service_name \o ": ", critical_attrs)

\* _get_reasoning_description without its literal for an empty list.
GetReasoningDescriptionNoFallback(b_structure, e_structure) ==
    LET baseline_services == OdKeys(b_structure.services)
        enhanced_services == OdKeys(e_structure.services)
        services == SetIter(baseline_services \cup enhanced_services)
        found == Extend([i \in 1..Len(services) |->
                            ServiceDescriptions(services[i], baseline_services,
                                                enhanced_services)])
        common == SetIter(baseline_services \cap enhanced_services)
        first == SubSeq(common, 1, IF Len(common) < MaxFallbackServices
                                   THEN Len(common) ELSE MaxFallbackServices)
    IN  join("; ", IF found # <<>> THEN found
                   ELSE Extend([i \in 1..Len(first) |-> FallbackDescriptions(first[i])]))

_get_reasoning_description(b_structure, e_structure) ==
    LET baseline_services == OdKeys(b_structure.services)
        enhanced_services == OdKeys(e_structure.services)
        all_services == baseline_services \cup enhanced_services
        part(service_name) ==
            ServiceDescriptions(service_name, baseline_services, enhanced_services)
        services == SetIter(all_services)
        found == Extend([i \in 1..Len(services) |-> part(services[i])])
        common == SetIter(baseline_services \cap enhanced_services)
        first == SubSeq(common, 1, IF Len(common) < MaxFallbackServices
                                   THEN Len(common) ELSE MaxFallbackServices)
        descriptions == IF found # <<>> THEN found
                        ELSE Extend([i \in 1..Len(first) |-> FallbackDescriptions(first[i])])
    IN  IF descriptions # <<>> THEN join("; ", descriptions)
        ELSE "No specific reasoning insights available"

---------------------------------------------------------------------------
(* Comparison Orchestrator                                                 *)

\* The row of an architecture only one side has.
MissingRow(arch_id, side) ==
    [architecture_id |-> arch_id,
     services_same |-> 0,
     components_same |-> 0,
     attributes_same |-> 0,
     configurations_same |-> 0,
     services_differences |-> "Architecture only in " \o side,
     components_differences |-> "Architecture only in " \o side,
     attributes_differences |-> "Architecture only in " \o side,
     configurations_differences |-> "Architecture only in " \o side,
     reasoning_description |-> "Architecture exists only in " \o side \o " dataset"]

\* 1 if same else 0
Flag(same) == IF same THEN 1 ELSE 0

\* The row of an architecture both sides have, from the two structures.
ComparedRow(arch_id, b_structure, e_structure) ==
    LET services_comparison == _compare_services_level(b_structure, e_structure)
        components_comparison == _compare_components_level(b_structure, e_structure)
        attributes_comparison == _compare_attributes_level(b_structure, e_structure)
        configurations_comparison ==
            _compare_configurations_level(b_structure, e_structure)
    IN  [architecture_id |-> arch_id,
         services_same |-> Flag(services_comparison.same),
         components_same |-> Flag(components_comparison.same),
         attributes_same |-> Flag(attributes_comparison.same),
         configurations_same |-> Flag(configurations_comparison.same),
         services_differences |-> services_comparison.differences,
         components_differences |-> components_comparison.differences,
         attributes_differences |-> attributes_comparison.differences,
         configurations_differences |-> configurations_comparison.differences,
         reasoning_description |-> _get_reasoning_description(b_structure, e_structure)]

\* not arch: the architecture is None (or an empty dict).
Missing(arch) == DOMAIN arch = {}

\* _create_comparison_row naming the side that lacks the architecture.
CreateComparisonRowOtherSide(arch_id, baseline_arch, enhanced_arch) ==
    IF Missing(baseline_arch) THEN MissingRow(arch_id, "baseline")
    ELSE IF Missing(enhanced_arch) THEN MissingRow(arch_id, "enhanced")
    ELSE ComparedRow(arch_id,
                     _extract_architecture_structure(baseline_arch),
                     _extract_architecture_structure(enhanced_arch))

_create_comparison_row(arch_id, baseline_arch, enhanced_arch) ==
    IF Missing(baseline_arch) THEN MissingRow(arch_id, "enhanced")
    ELSE IF Missing(enhanced_arch) THEN MissingRow(arch_id, "baseline")
    ELSE ComparedRow(arch_id,
                     _extract_architecture_structure(baseline_arch),
                     _extract_architecture_structure(enhanced_arch))

\* {arch["architecture_id"]: arch for arch in data.get("architectures", [])}
ArchsById(data) ==
    LET archs == Get(data, "architectures", <<>>)
        last(id) == CHOOSE i \in DOMAIN archs :
                        /\ archs[i]["architecture_id"] = id
                        /\ \A j \in DOMAIN archs :
                               archs[j]["architecture_id"] = id => j <= i
    IN  [id \in {archs[i]["architecture_id"] : i \in DOMAIN archs} |-> archs[last(id)]]

\* arch["architecture_id"] raises KeyError for an architecture without one.
HasKeyError(data) ==
    LET archs == Get(data, "architectures", <<>>)
    IN  \E i \in DOMAIN archs : "architecture_id" \notin DOMAIN archs[i]

\* The identifiers of each side sorted, one side after the other.
AllArchIdsBySide(b_archs, e_archs) == sorted(DOMAIN b_archs) \o sorted(DOMAIN e_archs)

\* sorted(set(baseline_archs.keys()) | set(enhanced_archs.keys()))
AllArchIds(b_archs, e_archs) == sorted(DOMAIN b_archs \cup DOMAIN e_archs)

\* compare_all_architectures_tabular up to its loop: the two dicts by
\* identifier and the sorted identifiers.
Begin ==
    /\ pc = "start"
    /\ ~HasKeyError(baseline_data) /\ ~HasKeyError(enhanced_data)
    /\ baseline_archs' = ArchsById(baseline_data)
    /\ enhanced_archs' = ArchsById(enhanced_data)
    /\ all_arch_ids' = AllArchIds(ArchsById(baseline_data), ArchsById(enhanced_data))
    /\ comparison_rows' = <<>>
    /\ pc' = "loop"
    /\ UNCHANGED <<hash_order, baseline_data, enhanced_data,
                   baseline_reasoning_lookup, enhanced_reasoning_lookup,
                   baseline_structure, enhanced_structure, call_text, insight>>

\* compare_all_architectures_tabular raising KeyError while it builds the
\* dicts by identifier.
BeginKeyError ==
    /\ pc = "start"
    /\ (HasKeyError(baseline_data) \/ HasKeyError(enhanced_data))
    /\ pc' = "raised"
    /\ UNCHANGED <<hash_order, baseline_data, enhanced_data,
                   baseline_reasoning_lookup, enhanced_reasoning_lookup,
                   baseline_archs, enhanced_archs, all_arch_ids, comparison_rows,
                   baseline_structure, enhanced_structure, call_text, insight>>

\* One iteration of the loop over all_arch_ids: _create_comparison_row and
\* the append.
ProcessArch ==
    /\ pc = "loop"
    /\ Len(comparison_rows) < Len(all_arch_ids)
    /\ LET arch_id == all_arch_ids[Len(comparison_rows) + 1]
           baseline_arch == Get(baseline_archs, arch_id, None)
           enhanced_arch == Get(enhanced_archs, arch_id, None)
           compared == ~Missing(baseline_arch) /\ ~Missing(enhanced_arch)
       IN  /\ comparison_rows' =
                  Append(comparison_rows,
                         _create_comparison_row(arch_id, baseline_arch, enhanced_arch))
           /\ baseline_structure' =
                  IF compared THEN _extract_architecture_structure(baseline_arch)
                  ELSE baseline_structure
           /\ enhanced_structure' =
                  IF compared THEN _extract_architecture_structure(enhanced_arch)
                  ELSE enhanced_structure
    /\ UNCHANGED <<pc, hash_order, baseline_data, enhanced_data,
                   baseline_reasoning_lookup, enhanced_reasoning_lookup,
                   baseline_archs, enhanced_archs, all_arch_ids, call_text, insight>>

\* return comparison_rows
Return ==
    /\ pc = "loop"
    /\ Len(comparison_rows) = Len(all_arch_ids)
    /\ pc' = "done"
    /\ UNCHANGED <<hash_order, baseline_data, enhanced_data,
                   baseline_reasoning_lookup, enhanced_reasoning_lookup,
                   baseline_archs, enhanced_archs, all_arch_ids, comparison_rows,
                   baseline_structure, enhanced_structure, call_text, insight>>

\* A call of _extract_key_insight on call_text, outside a run of the comparison.
ExtractKeyInsight ==
    /\ pc = "call"
    /\ insight' = _extract_key_insight(call_text)
    /\ pc' = "returned"
    /\ UNCHANGED <<hash_order, baseline_data, enhanced_data,
                   baseline_reasoning_lookup, enhanced_reasoning_lookup,
                   baseline_archs, enhanced_archs, all_arch_ids, comparison_rows,
                   baseline_structure, enhanced_structure, call_text>>

---------------------------------------------------------------------------
(* Input documents                                                         *)

\* The longest components_search_space of an input architecture.
MaxComponents == 2

\* The longest "architectures" list of an input document.
MaxArchitectures == 2

\* The sequences of distinct members of S of length at most n.
SeqUpTo(S, n) ==
    UNION {{q \in [1..k -> S] : \A i, j \in 1..k : q[i] = q[j] => i = j} : k \in 0..n}

\* A dict with key k present (any of the values) or absent.
Opt(k, values) == {EmptyDict} \cup {k :> v : v \in values}

\* Attributes.
Cpu2 == [attribute_codename |-> "cpu", attribute_values |-> "[2]"]

Cpu4 == [attribute_codename |-> "cpu", attribute_values |-> "[4]",
         attribute_constraint_expr |-> "<=8", attribute_unit |-> "GB"]

Ram2 == [attribute_codename |-> "ram", attribute_values |-> "[2]"]

\* A service-component search space and a component holding the given
\* service-components under a service codename.
ServiceComponent(codename, attrs) ==
    [service_component_codename |-> codename, attributes_search_space |-> attrs]

Component(component_id, service_codename, service_components) ==
    [component_id |-> component_id,
     service_search_space |->
         [service_codename |-> service_codename,
          service_components_search_spaces |-> service_components]]

\* The components of the architectures the differencers are run on: one
\* component key with its attribute contents varied, with another attribute
\* name and with no attribute; a service with no service-component; and a
\* second service whose service-component and attribute have no codename.
DiffComponents ==
    {Component("c1", "db", <<ServiceComponent("x", <<Cpu2>>)>>),
     Component("c1", "db", <<ServiceComponent("x", <<Cpu4>>)
                               @@ [number_of_instances |-> 2,
                                   service_component_sort |-> <<"cpu">>]>>),
     Component("c1", "db", <<ServiceComponent("x", <<Ram2>>)>>),
     Component("c1", "db", <<[service_component_codename |-> "x"]>>),
     [component_id |-> "c2", service_search_space |-> [service_codename |-> "db"]],
     [component_id |-> "c2",
      service_search_space |->
          [service_codename |-> "web",
           service_components_search_spaces |->
               <<[attributes_search_space |-> <<[attribute_values |-> "[2]"]>>]>>]]}

DiffArchitectures ==
    {[architecture_id |-> "archA", components_search_space |-> comps] :
        comps \in SeqUpTo(DiffComponents, MaxComponents)}

\* The contents of a service-component apart from its codename: nothing, or
\* attributes, an instance count and a sort list.
Payloads ==
    {EmptyDict,
     [attributes_search_space |-> <<Cpu2>>, number_of_instances |-> 2,
      service_component_sort |-> <<"cpu">>]}

\* The components of the architectures the normalizer is run on.  The
\* component ids and codenames make composite keys that repeat, within one
\* service search space and across components, also for different pairs of
\* id and codename ("c_1" with "x", "c" with "1_x").
NormalizerComponents ==
    {[component_id |-> cid,
      service_search_space |->
          svc @@ [service_components_search_spaces |->
                      <<[service_component_codename |-> name] @@ payload>>]] :
        cid \in {"c", "c_1"}, svc \in Opt("service_codename", {"db"}),
        name \in {"x", "1_x"}, payload \in Payloads}
    \cup
    {[component_id |-> "c",
      service_search_space |->
          [service_codename |-> "db", service_select_attributes |-> <<"cpu">>] @@ scs] :
        scs \in Opt("service_components_search_spaces",
                    {<<>>, <<[service_component_codename |-> "x"],
                             [service_component_codename |-> "x",
                              attributes_search_space |-> <<Ram2>>,
                              number_of_instances |-> 3,
                              service_component_sort |-> <<"ram">>]>>})}
    \cup
    {EmptyDict,
     [service_search_space |->
         [service_codename |-> "web",
          service_components_search_spaces |-> <<[number_of_instances |-> 2]>>]]}

NormalizerArchitectures ==
    {[architecture_id |-> "archA"] @@ comps :
        comps \in Opt("components_search_space",
                      SeqUpTo(NormalizerComponents, MaxComponents))}

\* The components of the architectures the composite keys are made from:
\* component ids, codenames and service codenames that hold the separators
\* "_" and "::" of the keys, each with one service-component of the default
\* or of another instance count.
KeyComponents ==
    {[component_id |-> cid,
      service_search_space |->
          [service_codename |-> svc,
           service_components_search_spaces |->
               <<[service_component_codename |-> name] @@ instances>>]] :
        cid \in {"a", "a_b", "x::a"}, svc \in {"s", "s::x"},
        name \in {"c", "b_c"}, instances \in Opt("number_of_instances", {2})}

KeyArchitectures ==
    {[architecture_id |-> "archA", components_search_space |-> comps] :
        comps \in SeqUpTo(KeyComponents, MaxComponents)}

\* The architectures of the documents the orchestrator is run on: archA
\* with every field present and with the optional fields absent, archB with
\* no component list, and an architecture with no identifier.
OrchestratorArchitectures ==
    {[architecture_id |-> "archA",
      components_search_space |->
          <<Component("c1", "db", <<ServiceComponent("x", <<Cpu4>>)
                                      @@ [number_of_instances |-> 2,
                                          service_component_sort |-> <<"cpu">>]>>)>>],
     [architecture_id |-> "archA",
      components_search_space |->
          <<EmptyDict,
            [component_id |-> "c1",
             service_search_space |->
                 [service_components_search_spaces |->
                      <<EmptyDict, [attributes_search_space |-> <<EmptyDict>>]>>]],
            [component_id |-> "c1", service_search_space |-> [service_codename |-> "db"]]>>],
     [architecture_id |-> "archB"],
     [components_search_space |-> <<>>]}

OrchestratorDocuments ==
    Opt("architectures", SeqUpTo(OrchestratorArchitectures, MaxArchitectures))

\* Reasoning records.
DbReasoning ==
    [service_codename |-> "db",
     attribute_selection_rationale |-> "Sized because of peak load. Cheap",
     critical_attributes_reasoning |-> " ",
     alternatives_considered |-> <<[kind |-> "int", value |-> 7]>>,
     service_understanding |-> "Stores the rows"]

\* A pair of reasoning documents (baseline, enhanced) that differ.
DiffReasoning ==
    <<[reasoning_objects |->
           <<[service_codename |-> "db",
              attribute_selection_rationale |-> "Sized for load"]>>],
      [reasoning_objects |-> <<DbReasoning>>]>>

\* The pairs of reasoning documents (baseline, enhanced).
ReasoningDocuments ==
    {<<EmptyDict, EmptyDict>>,
     DiffReasoning,
     <<[reasoning_objects |-> <<DbReasoning>>],
       [reasoning_objects |-> <<[service_codename |-> "db"],
                                [service_understanding |-> "No name"]>>]>>}

\* More attributes: cpu with a unit, and cpu with nothing but its codename.
Cpu2GB == [attribute_codename |-> "cpu", attribute_values |-> "[2]",
           attribute_unit |-> "GB"]

CpuBare == [attribute_codename |-> "cpu"]

\* A component of service web whose service-component and attribute have
\* no codename.
WebComponent ==
    [component_id |-> "c2",
     service_search_space |->
         [service_codename |-> "web",
          service_components_search_spaces |->
              <<[attributes_search_space |-> <<[attribute_values |-> "[2]"]>>]>>]]

\* The service-components the configurations level is run on: attribute
\* lists that differ in any of values, constraint and unit, or in whether
\* cpu and ram are there, with and without an instance count and a sort
\* list.
ConfigServiceComponents ==
    {ServiceComponent("x", attrs) @@ instances @@ sort :
        attrs \in {<<>>, <<CpuBare>>, <<Cpu2>>, <<Cpu2GB>>, <<Cpu4>>, <<Cpu4, Ram2>>},
        instances \in Opt("number_of_instances", {2}),
        sort \in Opt("service_component_sort", {<<"cpu">>})}

\* The architectures the configurations level is run on: the component of
\* service web, alone or followed by a component c1 of service db.
ConfigArchitectures ==
    {[architecture_id |-> "archA", components_search_space |-> <<WebComponent>> \o rest] :
        rest \in {<<>>} \cup {<<Component("c1", "db", <<sc>>)>> :
                                  sc \in ConfigServiceComponents}}

\* An architecture with one component, without service-components, for
\* each of the service names.
ServicesArchitecture(names) ==
    [architecture_id |-> "archA",
     components_search_space |->
         [i \in DOMAIN names |->
             [component_id |-> "c",
              service_search_space |-> [service_codename |-> names[i]]]]]

\* The reasoning records of service db: each of the three rationale fields
\* absent or present, the rationales also empty or blank, the alternatives
\* a number or two texts.
DbRecords ==
    {[service_codename |-> "db"] @@ rationale @@ critical @@ alternatives :
        rationale \in Opt("attribute_selection_rationale",
                          {"", "Sized for load", "Sized because of peak load. Cheap"}),
        critical \in Opt("critical_attributes_reasoning", {" ", "Latency is critical"}),
        alternatives \in Opt("alternatives_considered",
                             {<<[kind |-> "int", value |-> 7]>>,
                              <<[kind |-> "str", value |-> "Redis"],
                                [kind |-> "str", value |-> "Kafka"]>>})}

\* Reasoning records of the services web, cache and queue.
WebReasoning ==
    [service_codename |-> "web", attribute_selection_rationale |-> "Web allows scaling"]

CacheReasoning ==
    [service_codename |-> "cache",
     critical_attributes_reasoning |-> "Cache ensures speed"]

QueueReasoning ==
    [service_codename |-> "queue", attribute_selection_rationale |-> "Queue for jobs"]

\* The records of the other services, <<baseline, enhanced>>: none; web the
\* same on both sides, cache and queue in the baseline only; web with a
\* record without rationale on the enhanced side, cache the same on both.
OtherRecords ==
    {<<<<>>, <<>>>>,
     <<<<WebReasoning, CacheReasoning, QueueReasoning>>, <<WebReasoning>>>>,
     <<<<WebReasoning, CacheReasoning>>,
       <<[service_codename |-> "web"], CacheReasoning>>>>}

\* The longest list of sentences an input text is made of.
MaxSentences == 2

\* s repeated n times.
RECURSIVE Repeat(_, _)
Repeat(s, n) ==
    IF n = 0 THEN ""
    ELSE IF n % 2 = 1 THEN s \o Repeat(s, n - 1)
    ELSE LET half == Repeat(s, n \div 2) IN half \o half

\* The sentences the input texts are made of: with and without a key
\* phrase, in lower and upper case, with and without a final period, with
\* blanks around, and of lengths around the 30 and the 150 characters the
\* code compares with.
Sentences ==
    {"",
     "  Cheap ",
     "It is also cheap.",
     "We selected Postgres because it ensures durability",
     "Sized DUE TO peak load.",
     Repeat("x", 30),
     Repeat("x", 31) \o " ",
     "allows " \o Repeat("x", 142),
     "allows " \o Repeat("x", 143),
     "allows " \o Repeat("x", 142) \o ".",
     "because " \o Repeat("x", 192),
     Repeat("y", 150),
     Repeat("y", 151)}

\* The input texts: the sentences of a list joined by ". ".
Texts == {join(". ", sentences) : sentences \in
             UNION {[1..n -> Sentences] : n \in 0..MaxSentences}}

---------------------------------------------------------------------------
(* Specifications                                                          *)

\* The state after __init__ for the given documents.
Constructed(baseline, enhanced, reasoning, order) ==
    /\ pc = "start"
    /\ hash_order = order
    /\ baseline_data = baseline
    /\ enhanced_data = enhanced
    /\ baseline_reasoning_lookup = _create_reasoning_lookup(reasoning[1])
    /\ enhanced_reasoning_lookup = _create_reasoning_lookup(reasoning[2])
    /\ baseline_archs = EmptyDict
    /\ enhanced_archs = EmptyDict
    /\ all_arch_ids = <<>>
    /\ comparison_rows = <<>>
    /\ baseline_structure = [services |-> <<>>]
    /\ enhanced_structure = [services |-> <<>>]
    /\ call_text = ""
    /\ insight = ""

\* The orchestrator on documents of several architectures.
Init ==
    \E baseline \in OrchestratorDocuments, enhanced \in OrchestratorDocuments,
       reasoning \in ReasoningDocuments, order \in HashOrders :
        Constructed(baseline, enhanced, reasoning, order)

Next == Begin \/ BeginKeyError \/ ProcessArch \/ Return

Spec == Init /\ [][Next]_vars

\* The differencers on one architecture of each side.
InitDiff ==
    \E baseline \in DiffArchitectures, enhanced \in DiffArchitectures :
        Constructed([architectures |-> <<baseline>>], [architectures |-> <<enhanced>>],
                    DiffReasoning, "ascending")

NextDiff == Begin \/ ProcessArch \/ Return

SpecDiff == InitDiff /\ [][NextDiff]_vars

\* The normalizer on one baseline architecture.
InitExtract ==
    \E baseline \in NormalizerArchitectures :
        Constructed([architectures |-> <<baseline>>],
                    [architectures |-> <<[architecture_id |-> "archA"]>>],
                    <<EmptyDict, EmptyDict>>, "ascending")

SpecExtract == InitExtract /\ [][NextDiff]_vars

\* The normalizer and the flattened keys on one baseline architecture,
\* against an enhanced architecture of the one component "a"/"c" of the
\* service "s::x".
InitKey ==
    \E baseline \in KeyArchitectures :
        Constructed([architectures |-> <<baseline>>],
                    [architectures |->
                        <<[architecture_id |-> "archA",
                           components_search_space |->
                               <<Component("a", "s::x", <<[service_component_codename |-> "c"]>>)>>]>>],
                    <<EmptyDict, EmptyDict>>, "ascending")

SpecKey == InitKey /\ [][NextDiff]_vars

\* The configurations level on one architecture of each side.
InitConfig ==
    \E baseline \in ConfigArchitectures, enhanced \in ConfigArchitectures,
       order \in HashOrders :
        Constructed([architectures |-> <<baseline>>], [architectures |-> <<enhanced>>],
                    <<EmptyDict, EmptyDict>>, order)

SpecConfig == InitConfig /\ [][NextDiff]_vars

\* The reasoning assembly on a baseline of the services db, web, cache and
\* queue and an enhanced architecture of the services web, db and cache.
InitReasoning ==
    \E baseline_db \in {<<>>} \cup {<<r>> : r \in DbRecords},
       enhanced_db \in {<<>>} \cup {<<r>> : r \in DbRecords},
       others \in OtherRecords, order \in HashOrders :
        Constructed(
            [architectures |-> <<ServicesArchitecture(<<"db", "web", "cache", "queue">>)>>],
            [architectures |-> <<ServicesArchitecture(<<"web", "db", "cache">>)>>],
            <<[reasoning_objects |-> baseline_db \o others[1]],
              [reasoning_objects |-> enhanced_db \o others[2]]>>,
            order)

SpecReasoning == InitReasoning /\ [][NextDiff]_vars

\* The Rationale Extractor on one text.
InitInsight ==
    \E t \in Texts :
        /\ pc = "call"
        /\ hash_order = "ascending"
        /\ baseline_data = EmptyDict /\ enhanced_data = EmptyDict
        /\ baseline_reasoning_lookup = EmptyDict
        /\ enhanced_reasoning_lookup = EmptyDict
        /\ baseline_archs = EmptyDict /\ enhanced_archs = EmptyDict
        /\ all_arch_ids = <<>>
        /\ comparison_rows = <<>>
        /\ baseline_structure = [services |-> <<>>]
        /\ enhanced_structure = [services |-> <<>>]
        /\ call_text = t
        /\ insight = ""

NextInsight == ExtractKeyInsight

SpecInsight == InitInsight /\ [][NextInsight]_vars

---------------------------------------------------------------------------
(* Properties of the Level Differencers, under SpecDiff                    *)

\* The row appended last, and whether it is the row of an architecture both
\* sides have: baseline_structure and enhanced_structure are then the two
\* structures it was made from.
Row == comparison_rows[Len(comparison_rows)]

RowCompared ==
    /\ Len(comparison_rows) > 0
    /\ Row.architecture_id \in DOMAIN baseline_archs \cap DOMAIN enhanced_archs

BaselineArch == baseline_archs[Row.architecture_id]

EnhancedArch == enhanced_archs[Row.architecture_id]

NoDifferences == [same |-> TRUE, differences |-> "No differences"]

Reflexive(structure) ==
    /\ _compare_services_level(structure, structure) = NoDifferences
    /\ _compare_components_level(structure, structure) = NoDifferences
    /\ _compare_attributes_level(structure, structure) = NoDifferences
    /\ _compare_configurations_level(structure, structure) = NoDifferences

AllSame(row) ==
    /\ row.services_same = 1 /\ row.services_differences = "No differences"
    /\ row.components_same = 1 /\ row.components_differences = "No differences"
    /\ row.attributes_same = 1 /\ row.attributes_differences = "No differences"
    /\ row.configurations_same = 1
    /\ row.configurations_differences = "No differences"

\* C1: each of the four differencers, given one normalized structure as
\* both of its arguments, answers same = True and "No differences"; so the
\* row of an architecture whose two structures are equal has the four flags
\* 1 and the four texts "No differences".
C1_Reflexive ==
    RowCompared =>
        /\ Reflexive(baseline_structure)
        /\ Reflexive(enhanced_structure)
        /\ (baseline_structure = enhanced_structure => AllSame(Row))

\* A structure of two services, with components and attributes, compared
\* against itself.
C1_Witness ==
    /\ RowCompared
    /\ baseline_structure = enhanced_structure
    /\ Len(baseline_structure.services) = 2
    /\ \E i \in DOMAIN baseline_structure.services :
           \E j \in DOMAIN baseline_structure.services[i][2].components :
               baseline_structure.services[i][2].components[j][2].attributes_search_space
                   # <<>>
    /\ AllSame(Row)

\* C2: at each of the four levels the same flag of the row, which compares
\* baseline against enhanced, is the same flag of the differencer run on
\* enhanced against baseline.
C2_SameSymmetric ==
    RowCompared =>
        /\ Row.services_same =
               Flag(_compare_services_level(enhanced_structure, baseline_structure).same)
        /\ Row.components_same =
               Flag(_compare_components_level(enhanced_structure, baseline_structure).same)
        /\ Row.attributes_same =
               Flag(_compare_attributes_level(enhanced_structure, baseline_structure).same)
        /\ Row.configurations_same =
               Flag(_compare_configurations_level(enhanced_structure,
                                                  baseline_structure).same)

\* The baseline's services and component keys are among the enhanced
\* side's, which has more: the two differences are not mirror images.
C2_Witness ==
    /\ RowCompared
    /\ OdKeys(baseline_structure.services) # OdKeys(enhanced_structure.services)
    /\ OdKeys(baseline_structure.services) \subseteq OdKeys(enhanced_structure.services)
    /\ DOMAIN _get_all_attributes(baseline_structure) # {}
    /\ DOMAIN _get_all_attributes(baseline_structure)
           \subseteq DOMAIN _get_all_attributes(enhanced_structure)
    /\ Row.services_same = 0 /\ Row.components_same = 0
    /\ Row.attributes_same = 0 /\ Row.configurations_same = 0

\* A service-component with only its codename left.
CodenameOnly(service_component) ==
    [k \in DOMAIN service_component \cap {"service_component_codename"} |->
        service_component[k]]

\* A raw architecture without the attribute lists, instance counts and sort
\* lists of its service-components: its component ids, service codenames
\* and service-component codenames, as the document has them.
Skeleton(arch) ==
    LET comps == Get(arch, "components_search_space", <<>>)
        bare(component) ==
            LET space == Get(component, "service_search_space", EmptyDict)
                scs == Get(space, "service_components_search_spaces", <<>>)
            IN  <<GetOpt(component, "component_id"),
                  GetOpt(space, "service_codename"),
                  [j \in DOMAIN scs |-> CodenameOnly(scs[j])]>>
    IN  [i \in DOMAIN comps |-> bare(comps[i])]

\* C3: two raw architectures with the same component ids, service codenames
\* and service-component codenames, whatever their attribute lists,
\* instance counts and sort lists, give a row with services_same = 1 and
\* components_same = 1 and both texts "No differences".
C3_KeysOnly ==
    (RowCompared /\ Skeleton(BaselineArch) = Skeleton(EnhancedArch)) =>
        /\ Row.services_same = 1 /\ Row.services_differences = "No differences"
        /\ Row.components_same = 1 /\ Row.components_differences = "No differences"

\* Two such architectures whose attributes and configurations differ.
C3_Witness ==
    /\ RowCompared
    /\ Skeleton(BaselineArch) = Skeleton(EnhancedArch)
    /\ BaselineArch # EnhancedArch
    /\ Row.services_same = 1 /\ Row.components_same = 1
    /\ Row.attributes_same = 0 /\ Row.configurations_same = 0

\* The components of a structure by "{service}::{component key}".
Components(structure) == FlatDict(structure)

\* The attribute codenames of a component, in list order.
Codenames(comp_data) ==
    [i \in DOMAIN comp_data.attributes_search_space |->
        AttrName(comp_data.attributes_search_space[i])]

\* The attribute of a component with a codename that occurs once in it.
AttrOf(comp_data, codename) ==
    comp_data.attributes_search_space[
        CHOOSE i \in DOMAIN comp_data.attributes_search_space :
            AttrName(comp_data.attributes_search_space[i]) = codename]

\* Both sides have the same services and the same component keys, every
\* component has each of its attribute codenames once and the same
\* codenames on both sides, and some attribute's attribute_values differ.
SameNamesOtherValues ==
    LET b == Components(baseline_structure)
        e == Components(enhanced_structure)
        once(names) == \A i, j \in DOMAIN names : names[i] = names[j] => i = j
        range(names) == {names[i] : i \in DOMAIN names}
    IN  /\ OdKeys(baseline_structure.services) = OdKeys(enhanced_structure.services)
        /\ DOMAIN b = DOMAIN e
        /\ \A k \in DOMAIN b :
               /\ once(Codenames(b[k])) /\ once(Codenames(e[k]))
               /\ range(Codenames(b[k])) = range(Codenames(e[k]))
        /\ \E k \in DOMAIN b : \E n \in range(Codenames(b[k])) :
               GetOpt(AttrOf(b[k], n), "attribute_values")
                   # GetOpt(AttrOf(e[k], n), "attribute_values")

\* C4: when the two sides have the same services, the same component keys
\* and in every component the same attribute codenames, each once, and the
\* attribute_values of some attribute differ, the row has attributes_same = 1
\* and configurations_same = 0.
C4_NamesNotValues ==
    (RowCompared /\ SameNamesOtherValues) =>
        Row.attributes_same = 1 /\ Row.configurations_same = 0

\* Such a pair of architectures, with two services.
C4_Witness ==
    /\ RowCompared /\ SameNamesOtherValues
    /\ Cardinality(OdKeys(baseline_structure.services)) = 2
    /\ Row.attributes_same = 1 /\ Row.configurations_same = 0

\* The members of a set of str in ascending order.
Ascending(S) ==
    CHOOSE names \in [1..Cardinality(S) -> S] :
        \A i \in 1..(Cardinality(S) - 1) : StrLess(names[i], names[i + 1])

\* The text for the keys one side has and the other has not.
KeySetsText(baseline_keys, enhanced_keys) ==
    LET baseline_only == baseline_keys \ enhanced_keys
        enhanced_only == enhanced_keys \ baseline_keys
        baseline_part == "Baseline only: " \o join(", ", Ascending(baseline_only))
        enhanced_part == "Enhanced only: " \o join(", ", Ascending(enhanced_only))
    IN  IF baseline_only # {} /\ enhanced_only # {}
        THEN baseline_part \o "; " \o enhanced_part
        ELSE IF baseline_only # {} THEN baseline_part
        ELSE IF enhanced_only # {} THEN enhanced_part
        ELSE "No differences"

\* C11: services_same is 1 exactly when the two sets of service codenames
\* are equal; the text is then "No differences", and otherwise "Baseline
\* only: <names>", present when the baseline has names the enhanced side
\* lacks, then "Enhanced only: <names>", present in the mirror case, joined
\* by "; ", the names being the set difference in lexicographic order
\* joined by ", ".
C11_ServicesText ==
    RowCompared =>
        LET baseline_services == OdKeys(baseline_structure.services)
            enhanced_services == OdKeys(enhanced_structure.services)
        IN  /\ Row.services_same = 1 <=> baseline_services = enhanced_services
            /\ Row.services_differences
                   = KeySetsText(baseline_services, enhanced_services)

\* The baseline document lists web before db and the enhanced one has no
\* service: the text names db before web.
C11_Witness ==
    /\ RowCompared
    /\ Len(baseline_structure.services) = 2
    /\ baseline_structure.services[1][1] = "web"
    /\ baseline_structure.services[2][1] = "db"
    /\ enhanced_structure.services = <<>>
    /\ Row.services_same = 0
    /\ Row.services_differences = "Baseline only: db, web"

\* The two sides have one service each, of different names: both parts of
\* the text.
C11_WitnessBothParts ==
    /\ RowCompared
    /\ Row.services_differences = "Baseline only: db; Enhanced only: web"

\* C21: in every row the flags are ordered by refinement:
\* configurations_same = 1 implies attributes_same = 1, and
\* attributes_same = 1 implies components_same = 1; so a difference at the
\* components level makes attributes_same and configurations_same 0.
C21_FlagRefinement ==
    \A i \in DOMAIN comparison_rows :
        LET row == comparison_rows[i]
        IN  /\ row.configurations_same = 1 => row.attributes_same = 1
            /\ row.attributes_same = 1 => row.components_same = 1
            /\ row.components_same = 0 =>
                   row.attributes_same = 0 /\ row.configurations_same = 0

\* The three places the flags can part: the same component keys with
\* other attribute names, and the same attribute names with other
\* contents.
C21_Witness ==
    /\ RowCompared
    /\ Row.components_same = 1
    /\ Row.attributes_same = 1
    /\ Row.configurations_same = 0

C21_WitnessAttributes ==
    /\ RowCompared
    /\ Row.components_same = 1
    /\ Row.attributes_same = 0
    /\ Row.configurations_same = 0

C21_WitnessComponents ==
    /\ RowCompared
    /\ Row.components_same = 0
    /\ FlatDict(baseline_structure) # EmptyDict
    /\ FlatDict(enhanced_structure) # EmptyDict

C21_WitnessAllSame ==
    /\ RowCompared
    /\ Row.configurations_same = 1
    /\ FlatDict(baseline_structure) # EmptyDict

---------------------------------------------------------------------------
(* Properties of the configurations level, under SpecConfig                *)

\* The configuration maps of the two sides by component key, and the
\* configuration map of one key, empty for a key the side does not have.
BaselineConfigs == _get_all_configurations(baseline_structure)

EnhancedConfigs == _get_all_configurations(enhanced_structure)

ConfigKeys == DOMAIN BaselineConfigs \cup DOMAIN EnhancedConfigs

ConfigOf(configs, comp_key) == Get(configs, comp_key, EmptyDict)

\* The attribute names of a component key on either side.
AttrNames(comp_key) ==
    DOMAIN Get(ConfigOf(BaselineConfigs, comp_key), "attributes", EmptyDict)
        \cup DOMAIN Get(ConfigOf(EnhancedConfigs, comp_key), "attributes", EmptyDict)

\* A field (values, constraint, unit) of an attribute of a component key
\* on one side: None when the side lacks the key, the attribute or the
\* field.
AttrField(configs, comp_key, attr_name, field) ==
    Get(Get(Get(ConfigOf(configs, comp_key), "attributes", EmptyDict),
            attr_name, EmptyDict),
        field, None)

\* The fields of an attribute whose values differ between the two sides,
\* in the order values, constraint, unit.
FieldsThatDiffer(comp_key, attr_name) ==
    SelectSeq(<<"values", "constraint", "unit">>,
              LAMBDA field : AttrField(BaselineConfigs, comp_key, attr_name, field)
                                 # AttrField(EnhancedConfigs, comp_key, attr_name, field))

\* The entry of an attribute in the difference text.
AttrEntry(comp_key, attr_name) ==
    attr_name \o ": " \o join(", ", FieldsThatDiffer(comp_key, attr_name))

\* The component key appears in the configurations difference text.
Appears(comp_key) == Contains(Row.configurations_differences, comp_key \o " (")

\* The sub-differences listed for a component key that appears: what is
\* between "{comp_key} (" and the next ")", cut at "; ".
SubDifferences(comp_key) ==
    LET t == Row.configurations_differences
        opening == comp_key \o " ("
        start == CHOOSE i \in 1..Len(t) : SubSeq(t, i, i + Len(opening) - 1) = opening
        rest == SubSeq(t, start + Len(opening), Len(t))
        close == CHOOSE i \in 1..Len(rest) :
                     /\ SubSeq(rest, i, i) = ")"
                     /\ \A j \in 1..(i - 1) : SubSeq(rest, j, j) # ")"
    IN  IF Appears(comp_key) THEN split(SubSeq(rest, 1, close - 1), "; ") ELSE <<>>

\* s.startswith(prefix)
StartsWith(s, prefix) == Len(s) >= Len(prefix) /\ SubSeq(s, 1, Len(prefix)) = prefix

\* C15: in the configurations difference text the entry of an attribute is
\* "{attr_name}: " followed by the fields whose values differ between the
\* two sides, those and no other, in the order values, constraint, unit,
\* joined by ", "; an attribute no field of which differs has no entry.
C15_FieldOrder ==
    RowCompared =>
        \A comp_key \in ConfigKeys : \A attr_name \in AttrNames(comp_key) :
            LET subs == SubDifferences(comp_key)
                entries == {i \in DOMAIN subs : StartsWith(subs[i], attr_name \o ": ")}
            IN  /\ \A i \in entries : subs[i] = AttrEntry(comp_key, attr_name)
                /\ Cardinality(entries)
                       = IF FieldsThatDiffer(comp_key, attr_name) # <<>> THEN 1 ELSE 0

\* The three fields of cpu differ and nothing else does.
C15_Witness ==
    /\ RowCompared
    /\ FieldsThatDiffer("db::c1_x", "cpu") = <<"values", "constraint", "unit">>
    /\ Row.configurations_differences = "db::c1_x (cpu: values, constraint, unit)"

\* The values and the constraint of cpu differ and its unit does not.
C15_WitnessTwoFields ==
    /\ RowCompared
    /\ Row.configurations_differences = "db::c1_x (cpu: values, constraint)"

\* str() of an instance count, None for a side without the component.
Shown(instances) == IF instances = None THEN "None" ELSE ToString(instances[1])

\* The instances and the sort sub-differences of a component key.
FixedSubDifferences(comp_key) ==
    LET b == ConfigOf(BaselineConfigs, comp_key)
        e == ConfigOf(EnhancedConfigs, comp_key)
    IN  (IF GetOpt(b, "instances") # GetOpt(e, "instances")
         THEN <<"instances: " \o Shown(GetOpt(b, "instances")) \o " vs "
                    \o Shown(GetOpt(e, "instances"))>>
         ELSE <<>>)
        \o (IF GetOpt(b, "sort") # GetOpt(e, "sort")
            THEN <<"sort configuration differs">> ELSE <<>>)

\* The entries of the attributes of a component key some field of which
\* differs.
AttrEntries(comp_key) ==
    {AttrEntry(comp_key, attr_name) :
        attr_name \in {n \in AttrNames(comp_key) : FieldsThatDiffer(comp_key, n) # <<>>}}

\* C18: for a component key, "instances: X vs Y" is listed exactly when
\* the instance counts differ, "sort configuration differs" exactly when
\* the sort lists differ, and an entry per attribute exactly for the
\* attribute names of either side whose values, constraint or unit differ;
\* the key appears in the text, as "{comp_key} (...)", exactly when one of
\* these was produced, and a key whose configuration maps are equal does
\* not appear.
C18_IndependentChecks ==
    RowCompared =>
        \A comp_key \in ConfigKeys :
            LET subs == SubDifferences(comp_key)
                fixed == FixedSubDifferences(comp_key)
            IN  /\ Appears(comp_key)
                       <=> (fixed # <<>> \/ AttrEntries(comp_key) # {})
                /\ ConfigOf(BaselineConfigs, comp_key)
                       = ConfigOf(EnhancedConfigs, comp_key) => ~Appears(comp_key)
                /\ Appears(comp_key) =>
                       /\ Len(subs) = Len(fixed) + Cardinality(AttrEntries(comp_key))
                       /\ SubSeq(subs, 1, Len(fixed)) = fixed
                       /\ {subs[i] : i \in (Len(fixed) + 1)..Len(subs)}
                              = AttrEntries(comp_key)

\* The instance counts differ, the sort lists differ, cpu and ram differ,
\* and the component of service web is the same on both sides: the text
\* has the one key with its four sub-differences.
C18_Witness ==
    /\ RowCompared
    /\ hash_order = "ascending"
    /\ "web::c2_Unknown" \in DOMAIN BaselineConfigs \cap DOMAIN EnhancedConfigs
    /\ Row.configurations_differences
           = "db::c1_x (instances: 2 vs 1; sort configuration differs; "
                 \o "cpu: values, constraint, unit; ram: values)"

\* The instance counts differ and nothing else does.
C18_WitnessInstancesOnly ==
    /\ RowCompared
    /\ Row.configurations_differences = "db::c1_x (instances: 1 vs 2)"

\* C20: at each of the four levels of the row of an architecture both
\* sides have, the difference text is "No differences" exactly when the
\* same flag is 1.
C20_TextAgreesWithFlag ==
    RowCompared =>
        /\ Row.services_differences = "No differences" <=> Row.services_same = 1
        /\ Row.components_differences = "No differences" <=> Row.components_same = 1
        /\ Row.attributes_differences = "No differences" <=> Row.attributes_same = 1
        /\ Row.configurations_differences = "No differences"
               <=> Row.configurations_same = 1

\* The same at the services and the components level alone.
C20_KeyLevelsAgree ==
    RowCompared =>
        /\ Row.services_differences = "No differences" <=> Row.services_same = 1
        /\ Row.components_differences = "No differences" <=> Row.components_same = 1

\* The same at the configurations level alone.
C20_ConfigurationsAgree ==
    RowCompared =>
        (Row.configurations_differences = "No differences"
            <=> Row.configurations_same = 1)

---------------------------------------------------------------------------
(* Properties of the reasoning assembly, under SpecReasoning               *)

\* The services both structures have, and those either has.
CommonServices ==
    OdKeys(baseline_structure.services) \cap OdKeys(enhanced_structure.services)

AllServices ==
    OdKeys(baseline_structure.services) \cup OdKeys(enhanced_structure.services)

\* The "; "-separated parts of the reasoning description.
DescriptionParts == split(Row.reasoning_description, "; ")

\* The part opens the entry of a service: "{service}: ...".
OpensEntry(part, service) == StartsWith(part, service \o ": ")

\* The insights listed for a service in the reasoning description: what
\* follows "{service}: " and the parts after it up to the next entry.
InsightsOf(service) ==
    LET parts == DescriptionParts
        opens(i) == \E other \in AllServices : OpensEntry(parts[i], other)
    IN  {SubSeq(parts[i], Len(service) + 3, Len(parts[i])) :
            i \in {j \in DOMAIN parts : OpensEntry(parts[j], service)}}
        \cup
        {parts[i] : i \in {j \in DOMAIN parts :
            /\ ~opens(j)
            /\ \E k \in 1..(j - 1) :
                   /\ OpensEntry(parts[k], service)
                   /\ \A m \in (k + 1)..j : ~opens(m)}}

\* The three rationale fields with their labels.
RationaleLabels ==
    [attribute_selection_rationale |-> "Attribute selection: ",
     critical_attributes_reasoning |-> "Critical attributes: ",
     alternatives_considered |-> "Design choice: "]

\* A rationale field of a service's record in a lookup, with the default
\* of an absent record or field.
RationaleField(lookup, service, field) ==
    Get(Get(lookup, service, EmptyDict), field,
        IF field = "alternatives_considered" THEN <<>> ELSE "")

\* The text of a rationale field: the field, or the first alternative as
\* text.
RationaleText(value, field) ==
    IF field # "alternatives_considered" THEN value
    ELSE IF value = <<>> THEN ""
    ELSE AlternativeText(value[1])

\* The enhanced field is not empty and differs from the baseline field.
EnhancedDiffers(service, field) ==
    LET enhanced == RationaleField(enhanced_reasoning_lookup, service, field)
    IN  /\ enhanced # RationaleField(baseline_reasoning_lookup, service, field)
        /\ enhanced # (IF field = "alternatives_considered" THEN <<>> ELSE "")

\* The Rationale Extractor's result for the enhanced field.
EnhancedInsight(service, field) ==
    _extract_key_insight(
        RationaleText(RationaleField(enhanced_reasoning_lookup, service, field), field))

\* C16, as stated: for a service of both structures and each of the three
\* rationale fields, the description lists for the service the field's
\* label followed by the Rationale Extractor's result for the enhanced
\* text when the enhanced field is not empty and differs from the baseline
\* field, and lists no insight of that label for the service otherwise.
C16_LabeledInsights ==
    RowCompared =>
        \A service \in CommonServices : \A field \in DOMAIN RationaleLabels :
            IF EnhancedDiffers(service, field)
            THEN (RationaleLabels[field] \o EnhancedInsight(service, field))
                     \in InsightsOf(service)
            ELSE \A listed \in InsightsOf(service) :
                     ~StartsWith(listed, RationaleLabels[field])

\* C16, amended: the labeled insight is listed when the enhanced field is
\* not empty, differs from the baseline field and the Rationale
\* Extractor's result for it is not empty; otherwise no insight of that
\* label is listed for the service.
C16_LabeledInsightsNonEmpty ==
    RowCompared =>
        \A service \in CommonServices : \A field \in DOMAIN RationaleLabels :
            IF EnhancedDiffers(service, field) /\ EnhancedInsight(service, field) # ""
            THEN (RationaleLabels[field] \o EnhancedInsight(service, field))
                     \in InsightsOf(service)
            ELSE \A listed \in InsightsOf(service) :
                     ~StartsWith(listed, RationaleLabels[field])

\* The three fields of db differ from the baseline's, the alternative is a
\* number; the rationale of web is the same on both sides: db has its
\* three labeled insights and web has none.
C16_Witness ==
    /\ RowCompared
    /\ EnhancedDiffers("db", "attribute_selection_rationale")
    /\ EnhancedDiffers("db", "critical_attributes_reasoning")
    /\ EnhancedDiffers("db", "alternatives_considered")
    /\ ~EnhancedDiffers("web", "attribute_selection_rationale")
    /\ RationaleField(enhanced_reasoning_lookup, "web", "attribute_selection_rationale")
           # ""
    /\ Row.reasoning_description
           = "db: Attribute selection: Sized because of peak load.; "
                 \o "Critical attributes: Latency is critical; Design choice: 7"

\* The per-service pass yields an insight: some service of both sides has a
\* labeled insight, or a service of one side has a service_understanding
\* (or, on the enhanced side only, a selection rationale) with an insight.
PassYieldsInsight ==
    \/ \E service \in CommonServices : \E field \in DOMAIN RationaleLabels :
           EnhancedDiffers(service, field) /\ EnhancedInsight(service, field) # ""
    \/ \E service \in AllServices \ CommonServices :
           LET lookup == IF service \in OdKeys(enhanced_structure.services)
                         THEN enhanced_reasoning_lookup
                         ELSE baseline_reasoning_lookup
               fields == IF service \in OdKeys(enhanced_structure.services)
                         THEN {"service_understanding", "attribute_selection_rationale"}
                         ELSE {"service_understanding"}
           IN  \E field \in fields :
                   _extract_key_insight(RationaleField(lookup, service, field)) # ""

\* The record the fallback uses for a service: the enhanced one if the
\* service has one, otherwise the baseline one.
FallbackRecord(service) ==
    IF service \in DOMAIN enhanced_reasoning_lookup
    THEN enhanced_reasoning_lookup[service]
    ELSE Get(baseline_reasoning_lookup, service, EmptyDict)

\* The text the fallback uses: attribute_selection_rationale if it is not
\* empty, otherwise critical_attributes_reasoning.
FallbackText(service) ==
    IF Get(FallbackRecord(service), "attribute_selection_rationale", "") # ""
    THEN FallbackRecord(service).attribute_selection_rationale
    ELSE Get(FallbackRecord(service), "critical_attributes_reasoning", "")

\* The entries the fallback adds for a sequence of services.
FallbackEntries(services) ==
    LET chosen == {i \in DOMAIN services :
                      _extract_key_insight(FallbackText(services[i])) # ""}
        entry(i) == services[i] \o ": " \o _extract_key_insight(FallbackText(services[i]))
    IN  [i \in chosen |-> entry(i)]

\* The sequences of distinct common services the fallback may visit: two
\* of them, or all when there are fewer.
FallbackVisits ==
    LET n == IF Cardinality(CommonServices) < 2 THEN Cardinality(CommonServices) ELSE 2
    IN  {q \in [1..n -> CommonServices] : \A i, j \in 1..n : q[i] = q[j] => i = j}

\* The description made of the entries of the visited services, in the
\* order of the visit, or the literal when there is none.
FallbackDescriptionOf(services) ==
    LET entries == FallbackEntries(services)
        ordered == [i \in 1..Cardinality(DOMAIN entries) |->
                       entries[CHOOSE k \in DOMAIN entries :
                                   Cardinality({m \in DOMAIN entries : m <= k}) = i]]
    IN  IF DOMAIN entries = {} THEN "No specific reasoning insights available"
        ELSE join("; ", ordered)

\* C17: when the per-service pass yields no insight, the description is
\* made of at most two entries, each of a service of both sides, each from
\* the enhanced record of the service if it has one and otherwise from the
\* baseline record, from attribute_selection_rationale if not empty and
\* otherwise critical_attributes_reasoning, or is exactly "No specific
\* reasoning insights available" when nothing is added; when the pass
\* yields an insight the description is the pass's and no fallback entry
\* or literal is used.
C17_Fallback ==
    RowCompared =>
        IF PassYieldsInsight
        THEN /\ Row.reasoning_description # "No specific reasoning insights available"
             /\ Row.reasoning_description
                    = join("; ", Extend([i \in 1..Len(SetIter(AllServices)) |->
                          ServiceDescriptions(SetIter(AllServices)[i],
                                              OdKeys(baseline_structure.services),
                                              OdKeys(enhanced_structure.services))]))
        ELSE \E services \in FallbackVisits :
                 Row.reasoning_description = FallbackDescriptionOf(services)

\* The pass yields nothing; the fallback visits cache, which has a record
\* only on the baseline side and only a critical_attributes_reasoning.
C17_Witness ==
    /\ RowCompared
    /\ ~PassYieldsInsight
    /\ "cache" \notin DOMAIN enhanced_reasoning_lookup
    /\ Row.reasoning_description = "cache: Cache ensures speed."

\* The pass yields nothing and the fallback adds nothing although records
\* exist: the literal.
C17_WitnessLiteral ==
    /\ RowCompared
    /\ ~PassYieldsInsight
    /\ DOMAIN enhanced_reasoning_lookup # {}
    /\ Row.reasoning_description = "No specific reasoning insights available"

\* The pass yields nothing and the fallback adds two entries.
C17_WitnessTwoEntries ==
    /\ RowCompared
    /\ ~PassYieldsInsight
    /\ \E services \in FallbackVisits :
           /\ Cardinality(DOMAIN FallbackEntries(services)) = 2
           /\ Row.reasoning_description = FallbackDescriptionOf(services)

---------------------------------------------------------------------------
(* Properties of the orchestrator, under Spec                              *)

\* The architecture identifiers of an input document, as the document has
\* them.
RawIds(data) ==
    LET archs == Get(data, "architectures", <<>>)
    IN  {archs[i]["architecture_id"] : i \in DOMAIN archs}

\* The run got past the two dicts by identifier: every architecture of the
\* documents has an identifier.
Started == pc \in {"loop", "done"}

\* The identifiers of the rows, in row order.
RowIds == [i \in DOMAIN comparison_rows |-> comparison_rows[i].architecture_id]

\* The row of an architecture that only the baseline has.
OnlyInBaseline(arch_id) ==
    [architecture_id |-> arch_id,
     services_same |-> 0, components_same |-> 0,
     attributes_same |-> 0, configurations_same |-> 0,
     services_differences |-> "Architecture only in baseline",
     components_differences |-> "Architecture only in baseline",
     attributes_differences |-> "Architecture only in baseline",
     configurations_differences |-> "Architecture only in baseline",
     reasoning_description |-> "Architecture exists only in baseline dataset"]

\* The row of an architecture that only the enhanced side has.
OnlyInEnhanced(arch_id) ==
    [architecture_id |-> arch_id,
     services_same |-> 0, components_same |-> 0,
     attributes_same |-> 0, configurations_same |-> 0,
     services_differences |-> "Architecture only in enhanced",
     components_differences |-> "Architecture only in enhanced",
     attributes_differences |-> "Architecture only in enhanced",
     configurations_differences |-> "Architecture only in enhanced",
     reasoning_description |-> "Architecture exists only in enhanced dataset"]

\* C5: the row of an architecture identifier that exactly one of the two
\* input documents has carries the four flags 0, the four texts
\* "Architecture only in <side>" and the description "Architecture exists
\* only in <side> dataset", <side> being the side that has the architecture.
C5_MissingArchitectureRows ==
    Started =>
        \A i \in DOMAIN comparison_rows :
            LET row == comparison_rows[i]
                arch_id == row.architecture_id
            IN  /\ (arch_id \in RawIds(baseline_data) \ RawIds(enhanced_data)
                        => row = OnlyInBaseline(arch_id))
                /\ (arch_id \in RawIds(enhanced_data) \ RawIds(baseline_data)
                        => row = OnlyInEnhanced(arch_id))

\* Baseline {archA} and enhanced {archB}: exactly two rows, archA's naming
\* the baseline and archB's the enhanced side.
C5_Witness ==
    /\ pc = "done"
    /\ RawIds(baseline_data) = {"archA"} /\ RawIds(enhanced_data) = {"archB"}
    /\ comparison_rows = <<OnlyInBaseline("archA"), OnlyInEnhanced("archB")>>

\* C6: the rows returned are one for each architecture identifier of the
\* union of the two documents' identifiers, none missing and none repeated,
\* in ascending order of architecture_id.
C6_OneRowPerIdSorted ==
    pc = "done" =>
        /\ {RowIds[i] : i \in DOMAIN RowIds}
               = RawIds(baseline_data) \cup RawIds(enhanced_data)
        /\ Len(RowIds) = Cardinality(RawIds(baseline_data) \cup RawIds(enhanced_data))
        /\ \A i \in 1..(Len(RowIds) - 1) : StrLess(RowIds[i], RowIds[i + 1])

\* archA twice in the baseline document and once in the enhanced one, which
\* lists archB before it: two rows, archA's then archB's.
C6_Witness ==
    /\ pc = "done"
    /\ Len(Get(baseline_data, "architectures", <<>>)) = 2
    /\ RawIds(baseline_data) = {"archA"}
    /\ Len(Get(enhanced_data, "architectures", <<>>)) = 2
    /\ enhanced_data.architectures[1]["architecture_id"] = "archB"
    /\ enhanced_data.architectures[2]["architecture_id"] = "archA"
    /\ RowIds = <<"archA", "archB">>

\* Every architecture of a document has an identifier.
AllIdentified(data) ==
    LET archs == Get(data, "architectures", <<>>)
    IN  \A i \in DOMAIN archs : "architecture_id" \in DOMAIN archs[i]

\* The four flags of a row are 0 or 1 and its five texts are not empty.
Complete(row) ==
    /\ DOMAIN row = {"architecture_id", "services_same", "components_same",
                     "attributes_same", "configurations_same",
                     "services_differences", "components_differences",
                     "attributes_differences", "configurations_differences",
                     "reasoning_description"}
    /\ \A f \in {"services_same", "components_same", "attributes_same",
                 "configurations_same"} : row[f] \in {0, 1}
    /\ \A f \in {"services_differences", "components_differences",
                 "attributes_differences", "configurations_differences",
                 "reasoning_description"} : Len(row[f]) > 0

\* An architecture some field of which is absent at every depth: no
\* component id, no service search space, no service codename, no
\* service-component codename, no attribute list, no attribute codename.
Sparse(arch) ==
    /\ "components_search_space" \in DOMAIN arch
    /\ \E i \in DOMAIN arch.components_search_space :
           arch.components_search_space[i] = EmptyDict
    /\ \E i \in DOMAIN arch.components_search_space :
           LET component == arch.components_search_space[i]
           IN  /\ "service_search_space" \in DOMAIN component
               /\ "service_codename" \notin DOMAIN component.service_search_space
               /\ "service_components_search_spaces"
                      \in DOMAIN component.service_search_space
               /\ \E j \in DOMAIN component.service_search_space
                                      .service_components_search_spaces :
                      component.service_search_space
                          .service_components_search_spaces[j] = EmptyDict

\* C7: on documents whose architectures all have an identifier, whatever
\* else is absent, the run does not raise and every row it has made is
\* complete: flags 0 or 1, the four difference texts and the reasoning
\* description non-empty.
C7_NeverFailsOnAbsentData ==
    (AllIdentified(baseline_data) /\ AllIdentified(enhanced_data)) =>
        /\ pc # "raised"
        /\ \A i \in DOMAIN comparison_rows : Complete(comparison_rows[i])

\* A finished run that compared two architectures with absent fields at
\* every depth, without reasoning documents, next to an architecture with
\* no component list.
C7_Witness ==
    /\ pc = "done"
    /\ Len(comparison_rows) = 2
    /\ baseline_reasoning_lookup = EmptyDict /\ enhanced_reasoning_lookup = EmptyDict
    /\ "archA" \in DOMAIN baseline_archs \cap DOMAIN enhanced_archs
    /\ Sparse(baseline_archs["archA"]) /\ Sparse(enhanced_archs["archA"])
    /\ "archB" \in DOMAIN baseline_archs
    /\ DOMAIN baseline_archs["archB"] = {"architecture_id"}
    /\ comparison_rows[1].reasoning_description
           = "No specific reasoning insights available"
    /\ Complete(comparison_rows[1]) /\ Complete(comparison_rows[2])

---------------------------------------------------------------------------
(* Properties of the Structure Normalizer, under SpecExtract               *)

\* The components of a raw architecture, in document order.
RawComponents(arch) == Get(arch, "components_search_space", <<>>)

\* The service codename a raw component is filed under.
ServiceOf(component) ==
    Get(Get(component, "service_search_space", EmptyDict), "service_codename", "Unknown")

\* The service-component entries of a list of raw components, in document
\* order: each with the service codename and the composite key it maps to
\* and the attributes, instance count and sort list it carries.
Occurrences(components) ==
    LET of(component) ==
            LET space == Get(component, "service_search_space", EmptyDict)
                scs == Get(space, "service_components_search_spaces", <<>>)
            IN  [j \in DOMAIN scs |->
                    [service |-> ServiceOf(component),
                     key |-> Get(component, "component_id", "") \o "_"
                                 \o Get(scs[j], "service_component_codename", "Unknown"),
                     attributes |-> Get(scs[j], "attributes_search_space", <<>>),
                     instances |-> Get(scs[j], "number_of_instances", 1),
                     sort |-> Get(scs[j], "service_component_sort", <<>>)]]
        upto[i \in 0..Len(components)] ==
            IF i = 0 THEN <<>> ELSE upto[i - 1] \o of(components[i])
    IN  upto[Len(components)]

\* The normalized entry of a composite key under a service.
EntryOf(structure, service, key) ==
    OdGet(OdGet(structure.services, service).components, key)

\* Two occurrences map to one composite key under one service.
SameKey(o1, o2) == o1.service = o2.service /\ o1.key = o2.key

\* The entry holds the attributes, instance count and sort list of the
\* occurrence.
Holds(entry, occurrence) ==
    /\ entry.attributes_search_space = occurrence.attributes
    /\ entry.number_of_instances = occurrence.instances
    /\ entry.service_component_sort = occurrence.sort

\* C8: the normalized entry of a composite key under a service holds the
\* attributes, instance count and sort list of the last service-component
\* entry of the document, in document order, that maps to that key under
\* that service; and every service codename of the document is a key of
\* the normalized structure, also that of a service with no
\* service-component.
C8_LastOccurrenceWins ==
    RowCompared =>
        LET components == RawComponents(BaselineArch)
            occ == Occurrences(components)
        IN  /\ \A i \in DOMAIN occ :
                   (\A j \in DOMAIN occ : SameKey(occ[i], occ[j]) => j <= i) =>
                       /\ occ[i].service \in OdKeys(baseline_structure.services)
                       /\ occ[i].key \in OdKeys(OdGet(baseline_structure.services,
                                                     occ[i].service).components)
                       /\ Holds(EntryOf(baseline_structure, occ[i].service, occ[i].key),
                                occ[i])
            /\ \A i \in DOMAIN components :
                   ServiceOf(components[i]) \in OdKeys(baseline_structure.services)

\* A document in which two entries of different attributes, instance count
\* and sort list map to one composite key of a service, and in which
\* another service has no service-component: the entry is the later one's,
\* and both services are keys.
C8_Witness ==
    /\ RowCompared
    /\ LET components == RawComponents(BaselineArch)
           occ == Occurrences(components)
       IN  /\ \E i, j \in DOMAIN occ :
                  /\ i < j /\ SameKey(occ[i], occ[j])
                  /\ occ[i].attributes # occ[j].attributes
                  /\ occ[i].instances # occ[j].instances
                  /\ occ[i].sort # occ[j].sort
                  /\ Holds(EntryOf(baseline_structure, occ[j].service, occ[j].key),
                           occ[j])
           /\ \E i \in DOMAIN components :
                  /\ \A j \in DOMAIN occ : occ[j].service # ServiceOf(components[i])
                  /\ ServiceOf(components[i]) \in OdKeys(baseline_structure.services)
                  /\ OdGet(baseline_structure.services,
                           ServiceOf(components[i])).components = <<>>

\* The reorderings (permutations) of a list.
Reorderings(list) ==
    {[i \in DOMAIN list |-> list[p[i]]] :
        p \in {q \in [DOMAIN list -> DOMAIN list] :
                   \A i, j \in DOMAIN list : q[i] = q[j] => i = j}}

\* No composite key is repeated within a service of the document.
NoRepeatedKey(components) ==
    LET occ == Occurrences(components)
    IN  \A i, j \in DOMAIN occ : SameKey(occ[i], occ[j]) => i = j

\* A normalized structure as the value == compares: services by codename,
\* each with its select_attributes and its entries by composite key.
AsDict(structure) ==
    [service \in OdKeys(structure.services) |->
        LET entry == OdGet(structure.services, service)
        IN  [service_codename |-> entry.service_codename,
             select_attributes |-> entry.select_attributes,
             components |-> OdMap(entry.components)]]

\* The same without the select_attributes.
EntriesByKey(structure) ==
    [service \in OdKeys(structure.services) |->
        OdMap(OdGet(structure.services, service).components)]

\* The architecture with its component list replaced.
WithComponents(arch, components) ==
    [k \in DOMAIN arch |->
        IF k = "components_search_space" THEN components ELSE arch[k]]

\* The service_select_attributes of the first component of a service in a
\* component list.
FirstSelectAttributes(components, service) ==
    LET first == CHOOSE i \in DOMAIN components :
                     /\ ServiceOf(components[i]) = service
                     /\ \A j \in DOMAIN components :
                            ServiceOf(components[j]) = service => i <= j
    IN  Get(Get(components[first], "service_search_space", EmptyDict),
            "service_select_attributes", <<>>)

\* C9, as stated: for a document that repeats no composite key within a
\* service, every permutation of the component list gives the same
\* normalized structure: same services, same select_attributes per service,
\* same entry per key.
C9_PermutationInvariant ==
    (RowCompared /\ NoRepeatedKey(RawComponents(BaselineArch))) =>
        \A permuted \in Reorderings(RawComponents(BaselineArch)) :
            AsDict(_extract_architecture_structure(
                       WithComponents(BaselineArch, permuted)))
                = AsDict(baseline_structure)

\* C9, amended: for a document that repeats no composite key within a
\* service, every permutation of the component list gives the same
\* services and the same entry per key; the select_attributes of a service
\* are those of the first component of the service in the permuted list, so
\* they are the same for the permutations that leave that component first,
\* and for all of them when the components of the service carry the same
\* service_select_attributes.
C9_PermutationInvariantEntries ==
    (RowCompared /\ NoRepeatedKey(RawComponents(BaselineArch))) =>
        \A permuted \in Reorderings(RawComponents(BaselineArch)) :
            LET structure == _extract_architecture_structure(
                                 WithComponents(BaselineArch, permuted))
            IN  /\ EntriesByKey(structure) = EntriesByKey(baseline_structure)
                /\ \A service \in OdKeys(structure.services) :
                       OdGet(structure.services, service).select_attributes
                           = FirstSelectAttributes(permuted, service)
                /\ ((\A service \in OdKeys(structure.services) :
                         FirstSelectAttributes(permuted, service)
                             = FirstSelectAttributes(RawComponents(BaselineArch),
                                                     service))
                        => AsDict(structure) = AsDict(baseline_structure))

\* Two components of one service, the first with service_select_attributes
\* and the second with a service-component: the other order gives the same
\* entry under the same key and other select_attributes.
C9_Witness ==
    /\ RowCompared
    /\ LET components == RawComponents(BaselineArch)
       IN  /\ Len(components) = 2
           /\ NoRepeatedKey(components)
           /\ ServiceOf(components[1]) = ServiceOf(components[2])
           /\ Occurrences(components) # <<>>
           /\ LET structure == _extract_architecture_structure(
                                   WithComponents(BaselineArch,
                                                  <<components[2], components[1]>>))
              IN  /\ EntriesByKey(structure) = EntriesByKey(baseline_structure)
                  /\ AsDict(structure) # AsDict(baseline_structure)

---------------------------------------------------------------------------
(* The composite keys, under SpecKey                                       *)

\* The service-component entries of a list of raw components: each with
\* the service codename it is filed under, its component_id and its
\* service_component_codename.
RawEntries(components) ==
    UNION {LET space == Get(components[i], "service_search_space", EmptyDict)
               scs == Get(space, "service_components_search_spaces", <<>>)
           IN  {[service |-> ServiceOf(components[i]),
                 component_id |-> Get(components[i], "component_id", ""),
                 codename |-> Get(scs[j], "service_component_codename", "Unknown")] :
                   j \in DOMAIN scs} :
           i \in DOMAIN components}

\* The composite keys of a service of a normalized structure.
KeysOf(structure, service) == OdKeys(OdGet(structure.services, service).components)

\* The pairs of a service and one of its composite keys.
ServiceKeys(structure) ==
    UNION {{<<service, key>> : key \in KeysOf(structure, service)} :
              service \in OdKeys(structure.services)}

\* Within a service, entries of the document share a ComponentEntry only
\* if they have the same component_id and service_component_codename: the
\* service has as many entries as the document has pairs of them.
WithinService(structure, components) ==
    \A service \in OdKeys(structure.services) :
        Cardinality(KeysOf(structure, service))
            = Cardinality({e \in RawEntries(components) : e.service = service})

\* Components of different services never have the same flattened key.
AcrossServices(structure) ==
    \A p, q \in ServiceKeys(structure) :
        p[1] # q[1] => p[1] \o "::" \o p[2] # q[1] \o "::" \o q[2]

\* C22, as stated: the composite component key identifies a component.
\* Within one service two service-component entries of the document share
\* a ComponentEntry only if they have the same component_id and the same
\* service_component_codename, and two components of different services
\* never have the same flattened key "{service}::{composite key}".
C22_KeyIdentifies ==
    RowCompared =>
        /\ WithinService(baseline_structure, RawComponents(BaselineArch))
        /\ AcrossServices(baseline_structure)

\* C22, within one service.
C22_WithinService ==
    RowCompared => WithinService(baseline_structure, RawComponents(BaselineArch))

\* C22, across services.
C22_AcrossServices ==
    RowCompared => AcrossServices(baseline_structure)

\* C22, across the two sides: when the components level finds the same
\* component keys, the two structures have the same services with the
\* same composite keys.
C22_SameKeysSameComponents ==
    RowCompared /\ Row.components_same = 1 =>
        ServiceKeys(baseline_structure) = ServiceKeys(enhanced_structure)

---------------------------------------------------------------------------
(* Properties of the Rationale Extractor, under SpecInsight                *)

\* The call of _extract_key_insight on call_text has returned insight.
Returned == pc = "returned"

\* The ". "-separated sentences of the text, blanks around the text and
\* around each sentence left out.
SentencesOf(t) ==
    LET parts == split(strip(t), ". ")
    IN  [i \in DOMAIN parts |-> strip(parts[i])]

\* The sentence contains one of the decision phrases, in any case.
HasPhrase(sentence) ==
    LET lowered == lower(sentence)
    IN  \E p \in DOMAIN key_phrases : Contains(lowered, key_phrases[p])

\* The text has a sentence with a decision phrase.
SomePhrase(t) ==
    LET sentences == SentencesOf(t)
    IN  \E i \in DOMAIN sentences : HasPhrase(sentences[i])

\* The first sentence with a decision phrase, ended by a period.
FirstPhraseSentence(t) ==
    LET sentences == SentencesOf(t)
        first == CHOOSE i \in DOMAIN sentences :
                     /\ HasPhrase(sentences[i])
                     /\ \A j \in 1..(i - 1) : ~HasPhrase(sentences[j])
    IN  IF EndsWith(sentences[first], ".") THEN sentences[first]
        ELSE sentences[first] \o "."

\* A candidate as it is returned: whole when of at most 150 characters,
\* else its first 150 characters and "...".
Cut(candidate) ==
    IF Len(candidate) <= 150 THEN candidate
    ELSE SubSeq(candidate, 1, 150) \o "..."

\* C12, as stated: for a non-empty text with a sentence that contains a
\* decision phrase, the result is the first such sentence, with a period
\* appended when it does not end in one.
C12_FirstPhraseSentence ==
    (Returned /\ call_text # "" /\ SomePhrase(call_text)) =>
        insight = FirstPhraseSentence(call_text)

\* C12, amended: for a non-empty text with a sentence that contains a
\* decision phrase, the result is the first such sentence, with a period
\* appended when it does not end in one, whole when that is of at most 150
\* characters and else cut to its first 150 characters followed by "...".
C12_FirstPhraseSentenceCut ==
    (Returned /\ call_text # "" /\ SomePhrase(call_text)) =>
        insight = Cut(FirstPhraseSentence(call_text))

\* A sentence of 31 characters without a phrase before one with a phrase
\* and no period: the second is returned, with a period.
C12_Witness ==
    /\ Returned
    /\ call_text = Repeat("x", 31)
                       \o " . We selected Postgres because it ensures durability"
    /\ insight = "We selected Postgres because it ensures durability."

\* The text "We selected Postgres because it ensures durability. It is
\* also cheap." and its result.
C12_WitnessExample ==
    /\ Returned
    /\ call_text = "We selected Postgres because it ensures durability. It is also cheap."
    /\ insight = "We selected Postgres because it ensures durability."

\* The text has a sentence of more than 30 characters.
SomeLong(t) == \E i \in DOMAIN SentencesOf(t) : Len(SentencesOf(t)[i]) > 30

\* The first sentence of more than 30 characters.
FirstLongSentence(t) ==
    LET sentences == SentencesOf(t)
    IN  sentences[CHOOSE i \in DOMAIN sentences :
                      /\ Len(sentences[i]) > 30
                      /\ \A j \in 1..(i - 1) : Len(sentences[j]) <= 30]

\* The candidate chosen for a text: the first sentence with a decision
\* phrase, else the first sentence of more than 30 characters, else the
\* text.
Candidate(t) ==
    IF SomePhrase(t) THEN FirstPhraseSentence(t)
    ELSE IF SomeLong(t) THEN FirstLongSentence(t)
    ELSE strip(t)

\* C13: the result is the whole chosen candidate, of at most 150
\* characters, or the first 150 characters of a longer candidate followed
\* by "...".
C13_Truncation ==
    Returned =>
        LET candidate == Candidate(call_text)
        IN  \/ Len(insight) <= 150 /\ insight = candidate
            \/ /\ Len(candidate) > 150
               /\ Len(insight) = 153
               /\ SubSeq(insight, 1, 150) = SubSeq(candidate, 1, 150)
               /\ SubSeq(insight, 151, 153) = "..."

\* A sentence of 200 characters with a decision phrase is returned as its
\* first 150 characters and "...".
C13_Witness ==
    /\ Returned
    /\ Len(call_text) = 200
    /\ SomePhrase(call_text)
    /\ insight = SubSeq(call_text, 1, 150) \o "..."

\* C14: the result is at most one sentence: it does not hold a ". " that
\* separates two sentences of the text.
C14_AtMostOneSentence == Returned => ~Contains(insight, ". ")

\* C19: a text none of whose sentences has a decision phrase gives its
\* first sentence of more than 30 characters, stripped, or, without such a
\* sentence, the stripped text, in both cases whole when of at most 150
\* characters and else cut to 150 characters followed by "..."; and the
\* empty text gives the empty string.
C19_NoPhrase ==
    Returned =>
        /\ ~SomePhrase(call_text) =>
               insight = Cut(IF SomeLong(call_text) THEN FirstLongSentence(call_text)
                             ELSE strip(call_text))
        /\ call_text = "" => insight = ""

\* A sentence of 30 characters before one of 151, neither with a phrase:
\* the result is the second, cut.
C19_Witness ==
    /\ Returned
    /\ call_text = Repeat("x", 30) \o ". " \o Repeat("y", 151)
    /\ insight = Repeat("y", 150) \o "..."

\* Two short sentences without a phrase: the result is the stripped text.
C19_WitnessText ==
    /\ Returned
    /\ call_text = "  Cheap . It is also cheap."
    /\ insight = "Cheap . It is also cheap."

\* The empty text: the empty result.
C19_WitnessEmpty == Returned /\ call_text = "" /\ insight = ""

---------------------------------------------------------------------------
(* The attributes level against its statement, under SpecDiff              *)

\* The attribute-codename existence map of a component key on one side,
\* empty for a key the side does not have.
ExistenceMap(structure, comp_key) ==
    Get(_get_all_attributes(structure), comp_key, EmptyDict)

\* C10: attributes_same is 1 exactly when, for every component key of
\* either side, the attribute-codename existence map of the baseline equals
\* that of the enhanced side, a key absent from a side counting as an empty
\* map.
C10_AttributesSameIff ==
    RowCompared =>
        (Row.attributes_same = 1
            <=> \A comp_key \in DOMAIN _get_all_attributes(baseline_structure)
                                \cup DOMAIN _get_all_attributes(enhanced_structure) :
                    ExistenceMap(baseline_structure, comp_key)
                        = ExistenceMap(enhanced_structure, comp_key))

===========================================================================
